---- MODULE Spec2Model ----
(***************************************************************************)
(* SkillBridge: the gap-scoring and curriculum-assembly pipeline.          *)
(*                                                                         *)
(*   backend/src/services/gap_analyzer.py        GapAnalyzer               *)
(*   backend/src/services/training_generator.py  TrainingGenerator         *)
(*   backend/src/services/semantic_scholar.py    SemanticScholarService    *)
(*                                                                         *)
(* A Python str is a sequence of one-character strings, so that lower(),   *)
(* strip(), title(), slicing and the `in` operator are computed as Python  *)
(* computes them.  The literal pieces of an f-string template are kept as  *)
(* single chunks of such a sequence ("Module " is one element); the values *)
(* interpolated into it are spliced in character by character.  A Python   *)
(* dict is a record whose DOMAIN holds exactly the keys present.           *)
(***************************************************************************)
EXTENDS Integers, Sequences, FiniteSets, TLC

VARIABLES
    pc,               \* position of the modelled call
    resume_skills,    \* calculate_skill_overlap / analyze_gaps: resume_skills
    job_skills,       \* calculate_skill_overlap: job_skills
    overlap,          \* calculate_skill_overlap: the returned (matching, missing)
    llm,              \* GapAnalyzer.llm / TrainingGenerator.llm is set
    job_description,  \* analyze_gaps: job_description
    job_title,        \* analyze_gaps / generate_training_modules: job_title
    extract_reply,    \* what the model call of extract_job_skills produced
    gap_reply,        \* what the model call of analyze_gaps produced
    job_skills_dict,  \* analyze_gaps: job_skills_dict
    analysis,         \* analyze_gaps: the returned dict, or the exception raised
    gap_analysis,     \* generate_training_modules / generate_project_training: gap_analysis
    domain,           \* generate_training_modules: domain
    project_info,     \* generate_project_training: project_info
    llm_reply,        \* what the model call of the training generator produced
    training,         \* the curriculum (training_data) returned
    training_data,    \* enrich_with_research_papers: the curriculum object passed in
    training_given,   \* the value of that object when the call was made
    enrich_skills,    \* enrich_with_research_papers: skill_gaps
    papers_by_skill,  \* get_papers_for_skills: results, as (skill, papers) pairs
    all_papers,       \* get_case_studies: all_papers
    loop_i,           \* position of the loop over skills, then over queries
    events,           \* the search requests issued and the delays awaited
    enriched,         \* what enrich_with_research_papers returned
    skill_in,         \* normalize_skill: skill
    normalized,       \* normalize_skill: the string returned
    filename,         \* upload_resume: file.filename
    file_content,     \* upload_resume: what the uploaded bytes are
    parsed,           \* parse_resume: the dict returned, or the exception raised
    resumes,          \* the rows of the resumes table
    upload_response,  \* upload_resume: the response sent
    gridfs_files,     \* the files of the GridFS bucket
    stored_modules,   \* the documents of the training_modules collection
    http_request,     \* the request being served by the training-module routes
    http_response     \* the response sent to it

overlapVars == <<job_skills, overlap>>

gapVars == <<llm, job_description, job_title, extract_reply, gap_reply,
             job_skills_dict, analysis>>

asmVars == <<gap_analysis, domain, project_info, llm_reply, training>>

enrichVars == <<training_data, training_given, enrich_skills, papers_by_skill,
                all_papers, loop_i, events, enriched>>

normVars == <<skill_in, normalized>>

uploadVars == <<filename, file_content, parsed, resumes, upload_response,
               gridfs_files>>

progressVars == <<stored_modules, http_request, http_response>>

restVars == <<normVars, uploadVars, progressVars>>

vars == <<pc, resume_skills, overlapVars, gapVars, asmVars, enrichVars, restVars>>

(***************************************************************************)
(* Bounds of the model.                                                    *)
(***************************************************************************)
MaxResume == 2
MaxTarget == 2
MaxDescTokens == 2
MaxLlmGaps == 2
MaxGaps == 6
MaxProjectGaps == 4
MaxTech == 4
MaxEnrichSkills == 2

\* longest skill string given to normalize_skill on its own
MaxSkillLen == 3

\* longest file name stem of an uploaded resume
MaxStemLen == 2

\* most training modules stored
MaxModules == 2

(***************************************************************************)
(* Values of the variables a specification does not use, and of results    *)
(* not yet returned.                                                       *)
(***************************************************************************)
NotCalled == [kind |-> "not_called"]

NoOverlap == [matching |-> <<>>, missing |-> <<>>]

NoAnalysis == [raised |-> FALSE]

NoSkillsDict == [required |-> <<>>, preferred |-> <<>>]

IdleOverlap ==
    /\ job_skills = <<>>
    /\ overlap = NoOverlap

IdleGap ==
    /\ llm = FALSE
    /\ job_description = <<>>
    /\ job_title = <<>>
    /\ extract_reply = NotCalled
    /\ gap_reply = NotCalled
    /\ job_skills_dict = NoSkillsDict
    /\ analysis = NoAnalysis

NoGapAnalysis == [skill_gaps |-> <<>>]

NoProjectInfo == [description |-> <<>>]

NoTraining == [modules |-> <<>>]

IdleAsm ==
    /\ gap_analysis = NoGapAnalysis
    /\ domain = <<>>
    /\ project_info = NoProjectInfo
    /\ llm_reply = NotCalled
    /\ training = NoTraining

NotReturned == [returned |-> FALSE]

IdleEnrich ==
    /\ training_data = NoTraining
    /\ training_given = NoTraining
    /\ enrich_skills = <<>>
    /\ papers_by_skill = <<>>
    /\ all_papers = <<>>
    /\ loop_i = 0
    /\ events = <<>>
    /\ enriched = NotReturned

IdleNorm ==
    /\ skill_in = <<>>
    /\ normalized = NotReturned

IdleUpload ==
    /\ filename = <<>>
    /\ file_content = "none"
    /\ parsed = NotReturned
    /\ resumes = <<>>
    /\ upload_response = NotReturned
    /\ gridfs_files = <<>>

IdleProgress ==
    /\ stored_modules = <<>>
    /\ http_request = NotReturned
    /\ http_response = NotReturned

IdleRest == IdleNorm /\ IdleUpload /\ IdleProgress

(***************************************************************************)
(* Python strings.                                                         *)
(***************************************************************************)
UpperLetters ==
    <<"A","B","C","D","E","F","G","H","I","J","K","L","M",
      "N","O","P","Q","R","S","T","U","V","W","X","Y","Z">>

LowerLetters ==
    <<"a","b","c","d","e","f","g","h","i","j","k","l","m",
      "n","o","p","q","r","s","t","u","v","w","x","y","z">>

Whitespace == {" ", "\t", "\n"}

IsUpper(c) == \E i \in DOMAIN UpperLetters : UpperLetters[i] = c

IsLower(c) == \E i \in DOMAIN LowerLetters : LowerLetters[i] = c

IsCased(c) == IsUpper(c) \/ IsLower(c)

LowerChar(c) ==
    IF IsUpper(c)
    THEN LowerLetters[CHOOSE i \in DOMAIN UpperLetters : UpperLetters[i] = c]
    ELSE c

UpperChar(c) ==
    IF IsLower(c)
    THEN UpperLetters[CHOOSE i \in DOMAIN LowerLetters : LowerLetters[i] = c]
    ELSE c

\* str.lower()
lower(s) == [i \in DOMAIN s |-> LowerChar(s[i])]

\* str.strip(): leading and trailing whitespace removed
strip(s) ==
    LET keep == {i \in DOMAIN s : s[i] \notin Whitespace}
    IN  IF keep = {} THEN <<>>
        ELSE LET first == CHOOSE i \in keep : \A j \in keep : i <= j
                 last  == CHOOSE i \in keep : \A j \in keep : j <= i
             IN  SubSeq(s, first, last)

\* str.title(): a cased character is upper-cased when it starts a word
\* (follows an uncased character or nothing) and lower-cased otherwise
title(s) ==
    [i \in DOMAIN s |->
        IF i = 1 \/ ~IsCased(s[i - 1]) THEN UpperChar(s[i]) ELSE LowerChar(s[i])]

\* `a in b` for two str: a occurs in b as a contiguous run (the empty
\* string occurs in every string)
StrIn(a, b) ==
    \E k \in 0..(Len(b) - Len(a)) : SubSeq(b, k + 1, k + Len(a)) = a

\* sequences over S of length at most n
SeqUpTo(S, n) == UNION {[1..k -> S] : k \in 0..n}

(***************************************************************************)
(* Skill names used as inputs.                                             *)
(***************************************************************************)
S_python   == <<"p","y","t","h","o","n">>
S_AdvPy    == <<"A","d","v"," ","P","y","t","h","o","n">>
S_ML       == <<"M","L">>
S_MLsp     == <<" ","M","L">>
S_ml       == <<"m","l">>
S_machine_learning ==
    <<"m","a","c","h","i","n","e"," ","l","e","a","r","n","i","n","g">>
S_dl       == <<"d","l">>
S_deep_learning == <<"d","e","e","p"," ","l","e","a","r","n","i","n","g">>
S_ai       == <<"a","i">>
S_artificial_intelligence ==
    <<"a","r","t","i","f","i","c","i","a","l"," ",
      "i","n","t","e","l","l","i","g","e","n","c","e">>
S_rct      == <<"r","c","t">>
S_rcts     == <<"r","c","t","s">>
S_randomized_controlled_trials ==
    <<"r","a","n","d","o","m","i","z","e","d"," ",
      "c","o","n","t","r","o","l","l","e","d"," ","t","r","i","a","l","s">>
S_sql      == <<"s","q","l">>
S_SQLsp    == <<" ","S","Q","L">>
S_r        == <<"r">>
S_data_science == <<"d","a","t","a"," ","s","c","i","e","n","c","e">>

\* the skill strings the overlap inputs are drawn from: a plain skill, a
\* mixed-case compound containing it, an alias key padded and in upper case,
\* its canonical form, and a one-letter skill (which occurs in "machine
\* learning" but not in "python")
SkillPool == {S_python, S_AdvPy, S_MLsp, S_machine_learning, S_r}

(***************************************************************************)
(* GapAnalyzer.normalize_skill                                             *)
(***************************************************************************)
aliases ==
    {<<S_ml, S_machine_learning>>,
     <<S_dl, S_deep_learning>>,
     <<S_ai, S_artificial_intelligence>>,
     <<S_rct, S_randomized_controlled_trials>>,
     <<S_rcts, S_randomized_controlled_trials>>}

\* dict.get(key, default) on the alias table
aliases_get(key, default) ==
    IF \E a \in aliases : a[1] = key
    THEN (CHOOSE a \in aliases : a[1] = key)[2]
    ELSE default

\* a variant that looks the alias up before stripping
normalize_alias_then_strip(skill) ==
    strip(aliases_get(lower(skill), lower(skill)))

normalize_skill(skill) ==
    LET s == strip(lower(skill)) IN aliases_get(s, s)

(***************************************************************************)
(* GapAnalyzer.calculate_skill_overlap                                     *)
(***************************************************************************)
\* the test of the inner loop
OneWayMatch(job_skill, resume_skill) == StrIn(job_skill, resume_skill)

skill_matches(job_skill, resume_skill) ==
    StrIn(job_skill, resume_skill) \/ StrIn(resume_skill, job_skill)

\* a variant that tests the resume skill at position i only
found_at_only(job_skill, resume_normalized, i) ==
    /\ i <= Len(resume_normalized)
    /\ skill_matches(job_skill, resume_normalized[i])

\* the inner loop: scan the resume skills from position i, stop at the
\* first match
RECURSIVE found_from(_, _, _)
found_from(job_skill, resume_normalized, i) ==
    IF i > Len(resume_normalized) THEN FALSE
    ELSE IF skill_matches(job_skill, resume_normalized[i]) THEN TRUE
    ELSE found_from(job_skill, resume_normalized, i + 1)

\* the outer loop: every job skill is appended to matching or to missing
RECURSIVE overlap_loop(_, _, _, _, _)
overlap_loop(job_normalized, resume_normalized, j, matching, missing) ==
    IF j > Len(job_normalized) THEN [matching |-> matching, missing |-> missing]
    ELSE IF found_from(job_normalized[j], resume_normalized, 1)
         THEN overlap_loop(job_normalized, resume_normalized, j + 1,
                           Append(matching, job_normalized[j]), missing)
         ELSE overlap_loop(job_normalized, resume_normalized, j + 1,
                           matching, Append(missing, job_normalized[j]))

\* a variant that tests every resume skill and never breaks
RECURSIVE overlap_nobreak(_, _, _, _, _, _)
overlap_nobreak(jn, rn, j, i, matching, missing) ==
    IF j > Len(jn) THEN [matching |-> matching, missing |-> missing]
    ELSE IF i > Len(rn)
         THEN overlap_nobreak(jn, rn, j + 1, 1, matching,
                 IF found_from(jn[j], rn, 1) THEN missing ELSE Append(missing, jn[j]))
         ELSE overlap_nobreak(jn, rn, j, i + 1,
                 IF skill_matches(jn[j], rn[i]) THEN Append(matching, jn[j]) ELSE matching,
                 missing)

overlap_without_break(resume, job) ==
    overlap_nobreak([j \in DOMAIN job |-> normalize_skill(job[j])],
                    [i \in DOMAIN resume |-> normalize_skill(resume[i])],
                    1, 1, <<>>, <<>>)

calculate_skill_overlap(resume, job) ==
    LET resume_normalized == [i \in DOMAIN resume |-> normalize_skill(resume[i])]
        job_normalized    == [j \in DOMAIN job |-> normalize_skill(job[j])]
    IN  overlap_loop(job_normalized, resume_normalized, 1, <<>>, <<>>)

(***************************************************************************)
(* Python values and helpers.                                              *)
(***************************************************************************)
\* a value json.loads can return for a number or a string
PyInt(n) == <<"int", n>>

PyStr(s) == <<"str", s>>

\* a JSON list / a JSON string held by a key of a parsed object
PyList(s) == <<"list", s>>

\* dict.get(key, default)
dict_get(d, key, default) == IF key \in DOMAIN d THEN d[key] ELSE default

\* x in list
InList(x, list) == \E i \in DOMAIN list : list[i] = x

\* list[:n]
Prefix(list, n) == SubSeq(list, 1, IF Len(list) < n THEN Len(list) ELSE n)

Digits == <<"0","1","2","3","4","5","6","7","8","9">>

\* str(n) for n >= 0
RECURSIVE Str(_)
Str(n) == IF n < 10 THEN <<Digits[n + 1]>>
          ELSE Str(n \div 10) \o <<Digits[(n % 10) + 1]>>

\* round(100 * num / den, 2) in hundredths: the nearest hundredth, a tie
\* going to the even one
round2_truncated(num, den) == (10000 * num) \div den

\* a variant that takes the ratio of the skills not counted in num
round2_of_rest(num, den) ==
    LET q == (10000 * (den - num)) \div den
        r == (10000 * (den - num)) % den
    IN  IF 2 * r < den THEN q
        ELSE IF 2 * r > den THEN q + 1
        ELSE IF q % 2 = 0 THEN q ELSE q + 1

round2(num, den) ==
    LET q == (10000 * num) \div den
        r == (10000 * num) % den
    IN  IF 2 * r < den THEN q
        ELSE IF 2 * r > den THEN q + 1
        ELSE IF q % 2 = 0 THEN q ELSE q + 1

(***************************************************************************)
(* GapAnalyzer.extract_job_skills                                          *)
(*                                                                         *)
(* The reply of the model call is                                          *)
(*   [kind |-> "raise"]     the call raised (timeout, API error)           *)
(*   [kind |-> "nonjson"]   text json.loads rejects                        *)
(*   [kind |-> "json", value |-> v], v one of                              *)
(*       [type |-> "other"]                 a list or a scalar             *)
(*       [type |-> "dict", fields |-> d]    an object; d holds the keys    *)
(*                                          present, each a PyList or,     *)
(*                                          for domain_knowledge, a PyStr  *)
(***************************************************************************)
keywords ==
    <<<<"p","y","t","h","o","n">>,
      <<"m","a","c","h","i","n","e"," ","l","e","a","r","n","i","n","g">>,
      <<"d","e","e","p"," ","l","e","a","r","n","i","n","g">>,
      <<"d","a","t","a"," ","s","c","i","e","n","c","e">>,
      <<"s","t","a","t","i","s","t","i","c","s">>,
      <<"c","a","u","s","a","l"," ","i","n","f","e","r","e","n","c","e">>,
      <<"R","C","T">>,
      <<"c","l","i","n","i","c","a","l"," ","t","r","i","a","l","s">>,
      <<"h","e","a","l","t","h"," ","d","a","t","a">>,
      <<"b","i","o","t","e","c","h">>,
      <<"p","h","a","r","m","a","c","e","u","t","i","c","a","l">>,
      <<"R">>,
      <<"S","Q","L">>,
      <<"p","y","t","o","r","c","h">>,
      <<"t","e","n","s","o","r","f","l","o","w">>,
      <<"p","a","n","d","a","s">>,
      <<"n","u","m","p","y">>>>

\* the fallback loop over keywords, appending to required_skills
RECURSIVE keyword_scan(_, _, _)
keyword_scan(job_lower, k, required_skills) ==
    IF k > Len(keywords) THEN required_skills
    ELSE keyword_scan(job_lower, k + 1,
            IF StrIn(keywords[k], job_lower)
            THEN Append(required_skills, keywords[k])
            ELSE required_skills)

\* lines 117-133, entered with the current required_skills, preferred_skills
keyword_fallback(description, required_skills, preferred_skills) ==
    [required  |-> keyword_scan(lower(description), 1, required_skills),
     preferred |-> preferred_skills]

extract_job_skills(has_llm, reply, description) ==
    IF ~has_llm \/ reply.kind \in {"raise", "nonjson"}
    THEN keyword_fallback(description, <<>>, <<>>)
    ELSE IF reply.value.type # "dict"
    THEN \* extracted.get raises AttributeError, caught at line 114
         keyword_fallback(description, <<>>, <<>>)
    ELSE LET extracted == reply.value.fields
             required_skills  == dict_get(extracted, "required_skills", PyList(<<>>))
             preferred_skills == dict_get(extracted, "preferred_skills", PyList(<<>>))
             domain_knowledge == dict_get(extracted, "domain_knowledge", PyList(<<>>))
             tools            == dict_get(extracted, "tools", PyList(<<>>))
         IN  IF domain_knowledge[1] = "list"
             THEN [required  |-> required_skills[2] \o domain_knowledge[2] \o tools[2],
                   preferred |-> preferred_skills[2]]
             ELSE \* list + str raises TypeError, caught at line 114, after
                  \* required_skills and preferred_skills were rebound
                  keyword_fallback(description, required_skills[2], preferred_skills[2])

(***************************************************************************)
(* GapAnalyzer.analyze_gaps                                                *)
(*                                                                         *)
(* The reply of the model call for the gap details is                      *)
(*   [kind |-> "raise"], [kind |-> "nonjson"], or                          *)
(*   [kind |-> "json", value |-> v], v one of                              *)
(*       [type |-> "other"]                an object or a scalar           *)
(*       [type |-> "list", items |-> s]    s a sequence of items, each a   *)
(*            dict (a record of the keys present) or [nonobject |-> TRUE]  *)
(* confidence_score is kept in hundredths: 3333 is 33.33.                  *)
(***************************************************************************)
is_dict(item) == "nonobject" \notin DOMAIN item

\* lines 281-289
basic_gap_details(missing_skills, required, title_) ==
    [i \in 1..Len(Prefix(missing_skills, 10)) |->
        [skill          |-> missing_skills[i],
         importance     |-> IF InList(missing_skills[i], required)
                            THEN "important" ELSE "nice-to-have",
         priority       |-> PyInt(i),
         reason         |-> <<"Required for ">> \o title_ \o <<" position">>,
         related_skills |-> <<>>]]

\* the sort key of line 292
priority_key(item) == dict_get(item, "priority", PyInt(999))

\* < on two keys of the same Python type
PriorityWords == <<"high", "low", "medium">>

WordRank(w) == CHOOSE i \in DOMAIN PriorityWords : PriorityWords[i] = w

key_less(a, b) ==
    IF a[1] = "int" THEN a[2] < b[2] ELSE WordRank(a[2]) < WordRank(b[2])

\* a variant that puts x in front of the elements with an equal key
RECURSIVE insert_before_equal(_, _)
insert_before_equal(sorted, x) ==
    IF sorted = <<>> THEN <<x>>
    ELSE IF ~key_less(priority_key(sorted[Len(sorted)]), priority_key(x))
         THEN Append(insert_before_equal(SubSeq(sorted, 1, Len(sorted) - 1), x),
                     sorted[Len(sorted)])
         ELSE Append(sorted, x)

\* list.sort is stable: x goes behind every element whose key is not greater
RECURSIVE insert_by_priority(_, _)
insert_by_priority(sorted, x) ==
    IF sorted = <<>> THEN <<x>>
    ELSE IF key_less(priority_key(x), priority_key(sorted[Len(sorted)]))
         THEN Append(insert_by_priority(SubSeq(sorted, 1, Len(sorted) - 1), x),
                     sorted[Len(sorted)])
         ELSE Append(sorted, x)

RECURSIVE sort_from(_, _, _)
sort_from(list, i, sorted) ==
    IF i > Len(list) THEN sorted
    ELSE sort_from(list, i + 1, insert_by_priority(sorted, list[i]))

\* gap_details.sort(key=lambda x: x.get("priority", 999)) on a list
sort_by_priority(list) == sort_from(list, 1, <<>>)

Raised(exc) == [raised |-> TRUE, exc |-> exc]

\* lines 291-307, with gap_details a list
analysis_result(matching_skills, missing_skills, all_job_skills, gap_details) ==
    IF \E i \in DOMAIN gap_details : ~is_dict(gap_details[i])
    THEN Raised("AttributeError")
    ELSE IF \E i, j \in DOMAIN gap_details :
                priority_key(gap_details[i])[1] # priority_key(gap_details[j])[1]
    THEN Raised("TypeError")
    ELSE LET sorted == sort_by_priority(gap_details)
             total_skills == Len(all_job_skills)
         IN  [raised           |-> FALSE,
              existing_skills  |-> matching_skills,
              missing_skills   |-> missing_skills,
              skill_gaps       |-> sorted,
              gap_priority     |-> Prefix(sorted, 5),
              confidence_score |-> IF total_skills > 0
                                   THEN round2(Len(matching_skills), total_skills)
                                   ELSE 0,
              analysis_notes   |->
                  <<"Found ">> \o Str(Len(matching_skills))
                  \o <<" matching skills out of ">> \o Str(total_skills)
                  \o <<" required. Identified ">> \o Str(Len(missing_skills))
                  \o <<" skill gaps to address.">>]

\* whether line 219 makes the model call
gap_llm_called(has_llm, missing_skills) == has_llm /\ missing_skills # <<>>

\* lines 217-307, given job_skills_dict and the overlap of lines 212-215
analyze_gaps_with(has_llm, ov, skills_dict, title_, reply) ==
    LET all_job_skills == skills_dict.required \o skills_dict.preferred
        basic == basic_gap_details(ov.missing, skills_dict.required, title_)
    IN  IF ~gap_llm_called(has_llm, ov.missing) \/ reply.kind \in {"raise", "nonjson"}
        THEN analysis_result(ov.matching, ov.missing, all_job_skills, basic)
        ELSE IF reply.value.type # "list"
        THEN \* .append (a falsy value) or .sort (a truthy one) of a non-list
             Raised("AttributeError")
        ELSE IF reply.value.items = <<>>
        THEN analysis_result(ov.matching, ov.missing, all_job_skills, basic)
        ELSE analysis_result(ov.matching, ov.missing, all_job_skills,
                             reply.value.items)

\* lines 209-307, given the dict extract_job_skills returned
analyze_gaps_from(has_llm, resume, skills_dict, title_, reply) ==
    analyze_gaps_with(has_llm,
        calculate_skill_overlap(resume, skills_dict.required \o skills_dict.preferred),
        skills_dict, title_, reply)

analyze_gaps(has_llm, resume, description, title_, ereply, greply) ==
    analyze_gaps_from(has_llm, resume,
                      extract_job_skills(has_llm, ereply, description),
                      title_, greply)

(***************************************************************************)
(* Specification of analyze_gaps on bounded inputs.                        *)
(***************************************************************************)
T_Python     == <<"P","y","t","h","o","n">>
T_Statistics == <<"S","t","a","t","i","s","t","i","c","s">>
T_ML_Intern  == <<"M","L"," ","I","n","t","e","r","n">>

\* the words a job description is made of
DescTokens == {T_Python, T_Statistics}

\* " ".join(tokens)
RECURSIVE JoinTokens(_)
JoinTokens(tokens) ==
    IF tokens = <<>> THEN <<>>
    ELSE IF Len(tokens) = 1 THEN tokens[1]
    ELSE tokens[1] \o <<" ">> \o JoinTokens(Tail(tokens))

Descriptions == {JoinTokens(t) : t \in SeqUpTo(DescTokens, MaxDescTokens)}

GapResumePool == {S_python, S_data_science}

ExtractDicts ==
    { [required_skills |-> PyList(<<S_python, S_machine_learning, S_sql>>)],
      [required_skills |-> PyList(<<S_MLsp>>), tools |-> PyList(<<S_python>>),
       preferred_skills |-> PyList(<<S_data_science>>)],
      [required_skills |-> PyList(<<S_sql>>), domain_knowledge |-> PyStr("biotech")] }

ExtractReplies ==
    {[kind |-> "raise"], [kind |-> "nonjson"],
     [kind |-> "json", value |-> [type |-> "other"]]}
    \cup {[kind |-> "json", value |-> [type |-> "dict", fields |-> d]] :
            d \in ExtractDicts}

GapItems ==
    { [skill |-> S_sql, importance |-> "critical", priority |-> PyInt(2),
       reason |-> <<"core">>, related_skills |-> <<>>],
      [skill |-> S_machine_learning, importance |-> "important",
       priority |-> PyInt(1), reason |-> <<"core">>, related_skills |-> <<>>],
      [skill |-> S_sql, importance |-> "critical", priority |-> PyStr("high"),
       reason |-> <<"core">>, related_skills |-> <<>>],
      [nonobject |-> TRUE] }

\* a reply rating more skills than the deterministic details ever hold, on
\* the 1-5 scale the prompt of lines 234 and 242 asks for
LongGapSkills ==
    <<S_python, S_machine_learning, S_deep_learning, S_artificial_intelligence,
      S_randomized_controlled_trials, S_sql, S_r, S_data_science, S_rct, S_ml,
      S_dl>>

LongGapRatings == <<3, 1, 2, 1, 5, 2, 4, 3, 1, 2, 5>>

LongGapItems ==
    [i \in DOMAIN LongGapSkills |->
        [skill |-> LongGapSkills[i], importance |-> "important",
         priority |-> PyInt(LongGapRatings[i]), reason |-> <<"core">>,
         related_skills |-> <<>>]]

GapReplies ==
    {[kind |-> "raise"], [kind |-> "nonjson"],
     [kind |-> "json", value |-> [type |-> "other"]],
     [kind |-> "json", value |-> [type |-> "list", items |-> LongGapItems]]}
    \cup {[kind |-> "json", value |-> [type |-> "list", items |-> s]] :
            s \in SeqUpTo(GapItems, MaxLlmGaps)}

InitGap ==
    /\ pc = "analyze_call"
    /\ resume_skills \in SeqUpTo(GapResumePool, MaxResume)
    /\ llm \in BOOLEAN
    /\ job_description \in Descriptions
    /\ job_title = T_ML_Intern
    /\ extract_reply = NotCalled
    /\ gap_reply = NotCalled
    /\ job_skills_dict = NoSkillsDict
    /\ analysis = NoAnalysis
    /\ IdleOverlap
    /\ IdleAsm
    /\ IdleEnrich
    /\ IdleRest

\* analyze_gaps up to its second model call: extract_job_skills (line 208)
\* and the overlap of line 212
AnalyzeGapsExtract ==
    /\ pc = "analyze_call"
    /\ \E ereply \in (IF llm THEN ExtractReplies ELSE {NotCalled}) :
         LET skills_dict == extract_job_skills(llm, ereply, job_description)
         IN  /\ extract_reply' = ereply
             /\ job_skills_dict' = skills_dict
             /\ overlap' = calculate_skill_overlap(resume_skills,
                               skills_dict.required \o skills_dict.preferred)
    /\ pc' = "analyze_gap_details"
    /\ UNCHANGED <<resume_skills, job_skills, llm, job_description, job_title,
                   gap_reply, analysis, asmVars, enrichVars,
                   restVars>>

\* the rest of analyze_gaps: the model call for the gap details, if it is
\* made, and lines 280-307
AnalyzeGapsPrioritize ==
    /\ pc = "analyze_gap_details"
    /\ \E greply \in (IF gap_llm_called(llm, overlap.missing)
                       THEN GapReplies ELSE {NotCalled}) :
         /\ gap_reply' = greply
         /\ analysis' = analyze_gaps_with(llm, overlap, job_skills_dict,
                                          job_title, greply)
    /\ pc' = "analyze_done"
    /\ UNCHANGED <<resume_skills, overlapVars, llm, job_description, job_title,
                   extract_reply, job_skills_dict, asmVars, enrichVars,
                   restVars>>

NextGap == AnalyzeGapsExtract \/ AnalyzeGapsPrioritize

SpecGap == InitGap /\ [][NextGap]_vars

(***************************************************************************)
(* TrainingGenerator: the single-phase template assembler.                 *)
(*                                                                         *)
(* A gap is a dict holding the keys present ("skill", "importance", ...).  *)
(* existing_skills only enters the prompt of the model call and is left    *)
(* out.                                                                    *)
(***************************************************************************)
S_Unknown_Skill == <<"U","n","k","n","o","w","n"," ","S","k","i","l","l">>
S_Skill         == <<"S","k","i","l","l">>
S_None          == <<"N","o","n","e">>
S_Position      == <<"P","o","s","i","t","i","o","n">>
S_general       == <<"g","e","n","e","r","a","l">>
S_biotech       == <<"b","i","o","t","e","c","h">>

\* one iteration of the loop of lines 204-243; n is i + 1
template_module(n, gap, title_, domain_) ==
    LET skill == dict_get(gap, "skill", S_Unknown_Skill)
        importance == dict_get(gap, "importance", "important")
    IN  [title |-> <<"Module ">> \o Str(n) \o <<": ">> \o title(skill),
         description |-> <<"Learn ">> \o skill \o <<" for ">> \o title_
                         \o <<" in ">> \o domain_,
         learning_objectives |->
            << <<"Understand the fundamentals of ">> \o skill,
               <<"Apply ">> \o skill \o <<" in ">> \o domain_ \o <<" contexts">>,
               <<"Practice ">> \o skill \o <<" through hands-on exercises">> >>,
         content |->
            << [section |-> <<"Introduction">>,
                content |-> <<"Introduction to ">> \o skill
                            \o <<" and its relevance to ">> \o title_
                            \o <<" in ">> \o domain_],
               [section |-> <<"Core Concepts">>,
                content |-> <<"Deep dive into ">> \o skill
                            \o <<" concepts and methodologies">>],
               [section |-> <<"Practical Application">>,
                content |-> <<"Applying ">> \o skill \o <<" to real-world ">>
                            \o domain_ \o <<" scenarios">>] >>,
         practical_exercises |->
            << [title |-> <<"Exercise 1: ">> \o skill \o <<" Basics">>,
                description |-> <<"Hands-on exercise to practice ">> \o skill
                                \o <<" fundamentals">>],
               [title |-> <<"Exercise 2: ">> \o skill \o <<" in ">> \o domain_,
                description |-> <<"Apply ">> \o skill \o <<" to a ">> \o domain_
                                \o <<"-specific problem">>] >>,
         estimated_duration |-> <<"1-2 weeks">>,
         difficulty |-> IF importance = "critical" THEN "intermediate" ELSE "beginner"]

\* a variant of the modules of lines 202-243 that keeps every gap
template_modules_uncut(priority_gaps, title_, domain_) ==
    [n \in 1..Len(priority_gaps) |->
        template_module(n, priority_gaps[n], title_, domain_)]

\* the modules of lines 202-243
template_modules(priority_gaps, title_, domain_) ==
    [n \in 1..Len(Prefix(priority_gaps, 5)) |->
        template_module(n, priority_gaps[n], title_, domain_)]

weeks_one_per_module(modules) == Str(Len(modules)) \o <<" weeks">>

\* the overall duration of line 273
weeks_of(modules) == Str(Len(modules) * 2) \o <<" weeks">>

_generate_template_based(priority_gaps, title_, domain_) ==
    LET modules == template_modules(priority_gaps, title_, domain_)
    IN  [title |-> <<"Training Program for ">> \o title_ \o <<" in ">> \o domain_,
         description |-> <<"Comprehensive training program to bridge skill gaps for ">>
                         \o title_,
         learning_objectives |->
            << <<"Bridge identified skill gaps">>,
               <<"Gain proficiency in ">> \o domain_ \o <<" domain knowledge">>,
               <<"Apply learned skills through practical exercises">> >>,
         modules |-> modules,
         case_studies |->
            << [title |-> title(domain_) \o <<" Case Study 1">>,
                description |-> <<"Real-world case study applying learned skills in ">>
                                \o domain_,
                learning_outcomes |-> << <<"Practical application">>,
                                         <<"Problem-solving">>,
                                         <<"Domain expertise">> >>] >>,
         resources |->
            << [type |-> "tutorial", title |-> <<"Online Tutorials">>,
                url |-> <<"Search for relevant tutorials on the identified skills">>],
               [type |-> "paper", title |-> <<"Research Papers">>,
                url |-> <<"Review recent papers in the field">>] >>,
         estimated_duration |-> weeks_of(modules)]

_generate_default_module(title_, domain_) ==
    [title |-> <<"Orientation Program for ">> \o title_,
     description |-> <<"Introduction to ">> \o title_ \o <<" role in ">> \o domain_,
     learning_objectives |->
        << <<"Understand role expectations">>,
           <<"Familiarize with domain-specific practices">> >>,
     modules |->
        << [title |-> <<"Role Introduction">>,
            description |-> <<"Introduction to ">> \o title_ \o <<" responsibilities">>,
            learning_objectives |-> << <<"Understand role">>, <<"Learn expectations">> >>,
            content |-> << [section |-> <<"Overview">>, content |-> <<"Role overview">>] >>,
            practical_exercises |-> <<>>,
            estimated_duration |-> <<"1 week">>,
            difficulty |-> "beginner"] >>,
     case_studies |-> <<>>,
     resources |-> <<>>,
     estimated_duration |-> <<"1 week">>]

(***************************************************************************)
(* TrainingGenerator.generate_training_modules and _generate_with_llm.     *)
(*                                                                         *)
(* The reply of the model call is [kind |-> "raise"], [kind |-> "nonjson"] *)
(* or [kind |-> "json", value |-> v] with v whatever json.loads returned:  *)
(* a curriculum object, another object, a list, a scalar.                  *)
(***************************************************************************)
_generate_with_llm(priority_gaps, title_, domain_, reply) ==
    IF reply.kind = "raise" THEN Raised("Exception")
    ELSE IF reply.kind = "nonjson"
    THEN _generate_template_based(priority_gaps, title_, domain_)
    ELSE reply.value

\* whether generate_training_modules makes the model call
training_llm_called(has_llm, analysis_) ==
    has_llm /\ dict_get(analysis_, "skill_gaps", <<>>) # <<>>

generate_training_modules(has_llm, analysis_, title_, domain_, reply) ==
    LET skill_gaps == dict_get(analysis_, "skill_gaps", <<>>)
        priority_gaps == dict_get(analysis_, "gap_priority", <<>>)
    IN  IF skill_gaps = <<>> THEN _generate_default_module(title_, domain_)
        ELSE IF has_llm /\ reply.kind # "raise"
        THEN _generate_with_llm(priority_gaps, title_, domain_, reply)
        ELSE _generate_template_based(priority_gaps, title_, domain_)

(***************************************************************************)
(* agents/src/index.py: TrainingGeneratorAgent.generate                    *)
(***************************************************************************)
agent_module(n, gap, title_, domain_) ==
    [title |-> <<"Module ">> \o Str(n) \o <<": ">> \o dict_get(gap, "skill", S_Skill),
     description |-> <<"Learn ">> \o dict_get(gap, "skill", S_None)
                     \o <<" for ">> \o title_,
     learning_objectives |->
        << <<"Understand ">> \o dict_get(gap, "skill", S_None),
           <<"Apply ">> \o dict_get(gap, "skill", S_None) \o <<" in ">>
               \o domain_ \o <<" contexts">> >>,
     estimated_duration |-> <<"1-2 weeks">>,
     difficulty |-> "intermediate"]

\* state holds the keys "gap_analysis" and "job_description" when present
agent_generate(state) ==
    LET analysis_ == dict_get(state, "gap_analysis", [unused |-> <<>>])
        description_ == dict_get(state, "job_description", [unused |-> <<>>])
        title_ == dict_get(description_, "title", S_Position)
        domain_ == dict_get(description_, "domain", S_general)
        priority_gaps == dict_get(analysis_, "gap_priority", <<>>)
        modules == [n \in 1..Len(Prefix(priority_gaps, 5)) |->
                       agent_module(n, priority_gaps[n], title_, domain_)]
    IN  [training_modules |->
            [title |-> <<"Training Program for ">> \o title_,
             modules |-> modules,
             estimated_duration |-> weeks_of(modules)]]

(***************************************************************************)
(* TrainingGenerator: the project-mode (two-phase) assembler.              *)
(***************************************************************************)
S_Project      == <<"P","r","o","j","e","c","t">>
S_Developer    == <<"D","e","v","e","l","o","p","e","r">>
S_Organization == <<"O","r","g","a","n","i","z","a","t","i","o","n">>

\* lines 443-462; n is i + 1
foundation_module(n, gap) ==
    LET skill == dict_get(gap, "skill", S_Unknown_Skill)
    IN  [title |-> <<"Foundation ">> \o Str(n) \o <<": ">> \o title(skill),
         description |-> <<"Build foundational knowledge in ">> \o skill,
         phase |-> "foundation",
         learning_objectives |->
            << <<"Understand core concepts of ">> \o skill,
               <<"Apply ">> \o skill \o <<" in practical scenarios">> >>,
         content |->
            << [section |-> <<"Core Concepts">>,
                content |-> <<"Fundamental concepts of ">> \o skill],
               [section |-> <<"Best Practices">>,
                content |-> <<"Industry best practices for ">> \o skill] >>,
         practical_exercises |->
            << [title |-> skill \o <<" Fundamentals">>,
                description |-> <<"Hands-on practice with ">> \o skill] >>,
         estimated_duration |-> <<"1 week">>,
         difficulty |-> "intermediate"]

\* lines 468-486
tech_module(tech, project_name) ==
    [title |-> <<"Project Tech: ">> \o tech,
     description |-> <<"Learn ">> \o tech \o <<" as used in ">> \o project_name,
     phase |-> "project",
     learning_objectives |->
        << <<"Understand ">> \o tech \o <<" in the context of ">> \o project_name,
           <<"Apply ">> \o tech \o <<" to project requirements">> >>,
     content |->
        << [section |-> <<"Overview">>,
            content |-> <<"How ">> \o tech \o <<" is used in ">> \o project_name],
           [section |-> <<"Project Setup">>,
            content |-> <<"Setting up ">> \o tech \o <<" for the project">>] >>,
     practical_exercises |->
        << [title |-> tech \o <<" Project Task">>,
            description |-> <<"Complete a task using ">> \o tech \o <<" for ">>
                            \o project_name] >>,
     estimated_duration |-> <<"3-5 days">>,
     difficulty |-> "intermediate"]

\* lines 489-509
context_module(project_name) ==
    [title |-> <<"Project Context: ">> \o project_name,
     description |-> <<"Understanding ">> \o project_name
                     \o <<" goals, architecture, and workflow">>,
     phase |-> "project",
     learning_objectives |->
        << <<"Understand project goals and objectives">>,
           <<"Learn project architecture and codebase">>,
           <<"Understand team workflow and processes">> >>,
     content |->
        << [section |-> <<"Project Overview">>,
            content |-> <<"Goals and scope of ">> \o project_name],
           [section |-> <<"Architecture">>,
            content |-> <<"Technical architecture and design decisions">>],
           [section |-> <<"Team Workflow">>,
            content |-> <<"Development workflow, code review, deployment">>] >>,
     practical_exercises |->
        << [title |-> <<"Codebase Exploration">>,
            description |-> <<"Navigate and understand the project codebase">>],
           [title |-> <<"First Contribution">>,
            description |-> <<"Make your first contribution to the project">>] >>,
     estimated_duration |-> <<"1 week">>,
     difficulty |-> "intermediate"]

\* the duration of a phase, lines 526 and 533
phase_weeks(modules) == Str(Len(modules)) \o <<" weeks">>

\* a variant that builds the foundation modules as the single-phase
\* template builds its modules
foundation_modules_as_single_phase(priority_gaps) ==
    [n \in 1..Len(Prefix(priority_gaps, 3)) |->
        template_module(n, priority_gaps[n], S_Position, S_general)]

\* lines 442-462
foundation_modules_of(priority_gaps) ==
    [n \in 1..Len(Prefix(priority_gaps, 3)) |-> foundation_module(n, priority_gaps[n])]

\* a variant that adds the project-context module only for an empty tech_stack
project_modules_no_context(tech_stack, project_name) ==
    IF tech_stack = <<>> THEN <<context_module(project_name)>>
    ELSE [n \in 1..Len(Prefix(tech_stack, 3)) |-> tech_module(tech_stack[n], project_name)]

\* lines 465-509
project_modules_of(tech_stack, project_name) ==
    [n \in 1..Len(Prefix(tech_stack, 3)) |-> tech_module(tech_stack[n], project_name)]
    \o <<context_module(project_name)>>

_generate_project_training_template(priority_gaps, info) ==
    LET project_name == dict_get(info, "name", S_Project)
        tech_stack   == dict_get(info, "tech_stack", <<>>)
        team_role    == dict_get(info, "team_role", S_Developer)
        organization == dict_get(info, "organization", S_Organization)
        foundation_modules == foundation_modules_of(priority_gaps)
        project_modules == project_modules_of(tech_stack, project_name)
        all_modules == foundation_modules \o project_modules
    IN  [title |-> team_role \o <<" Training for ">> \o project_name,
         description |-> <<"Comprehensive training program for ">> \o team_role
                         \o <<" joining ">> \o project_name \o <<" at ">>
                         \o organization,
         team_role |-> team_role,
         project_name |-> project_name,
         organization |-> organization,
         phases |->
            << [phase_number |-> 1,
                phase_name |-> <<"Foundation Training">>,
                description |-> <<"Build foundational skills based on identified gaps">>,
                modules |-> foundation_modules,
                estimated_duration |-> phase_weeks(foundation_modules)],
               [phase_number |-> 2,
                phase_name |-> <<"Project-Specific Training">>,
                description |-> <<"Learn project-specific skills for ">> \o project_name,
                modules |-> project_modules,
                estimated_duration |-> phase_weeks(project_modules)] >>,
         learning_objectives |->
            << <<"Bridge identified skill gaps">>,
               <<"Gain proficiency in ">> \o project_name \o <<" tech stack">>,
               <<"Understand project context and contribute effectively">>,
               <<"Integrate into ">> \o organization \o <<" team workflow">> >>,
         modules |-> all_modules,
         case_studies |->
            << [title |-> project_name \o <<" Feature Implementation">>,
                description |-> <<"Walk through implementing a feature in ">>
                                \o project_name,
                learning_outcomes |-> << <<"Understand development workflow">>,
                                         <<"Apply learned skills">> >>] >>,
         resources |->
            << [type |-> "documentation", title |-> <<"Project Documentation">>,
                url |-> <<"Internal docs">>],
               [type |-> "tutorial", title |-> <<"Tech Stack Tutorials">>,
                url |-> <<"Relevant tutorials">>] >>,
         estimated_duration |-> Str(Len(all_modules) + 1) \o <<" weeks">>,
         milestones |->
            << [week |-> 1, milestone |-> <<"Foundation Complete">>,
                deliverable |-> <<"Pass foundation assessments">>],
               [week |-> Len(foundation_modules) + 1,
                milestone |-> <<"Project Onboarded">>,
                deliverable |-> <<"First PR merged">>],
               [week |-> Len(all_modules), milestone |-> <<"Fully Productive">>,
                deliverable |-> <<"Independent task completion">>] >>]

_generate_project_training_llm(priority_gaps, info, reply) ==
    IF reply.kind = "raise" THEN Raised("Exception")
    ELSE IF reply.kind = "nonjson"
    THEN _generate_project_training_template(priority_gaps, info)
    ELSE reply.value

generate_project_training(has_llm, analysis_, info, reply) ==
    LET priority_gaps == dict_get(analysis_, "gap_priority", <<>>)
    IN  IF has_llm /\ reply.kind # "raise"
        THEN _generate_project_training_llm(priority_gaps, info, reply)
        ELSE _generate_project_training_template(priority_gaps, info)

(***************************************************************************)
(* Specifications of the assemblers on bounded inputs.                     *)
(***************************************************************************)
\* the gaps the gap lists are made of: a critical one, an important one, and
\* one without a skill name
GapPool ==
    { [skill |-> S_sql, importance |-> "critical"],
      [skill |-> S_machine_learning, importance |-> "important"],
      [importance |-> "nice-to-have"] }

\* the records passed as gap_analysis for a gap list: as analyze_gaps returns
\* it, with gap_priority not cut to 5, as GapAnalyzerAgent.analyze_gaps
\* builds it (index.py:70-77, no skill_gaps), and without gap_priority
GapAnalysesOf(gaps) ==
    { [skill_gaps |-> gaps, gap_priority |-> Prefix(gaps, 5)],
      [skill_gaps |-> gaps, gap_priority |-> gaps],
      [gap_priority |-> Prefix(gaps, 5)],
      [skill_gaps |-> gaps] }

GapAnalyses == UNION {GapAnalysesOf(gaps) : gaps \in SeqUpTo(GapPool, MaxGaps)}

\* a curriculum as the model may send it
LlmCurriculum ==
    [title |-> <<"Generated program">>,
     description |-> <<"Generated description">>,
     learning_objectives |-> << <<"Generated objective">> >>,
     modules |-> << [title |-> <<"Generated module">>,
                     description |-> <<"Generated module description">>,
                     learning_objectives |-> <<>>,
                     content |-> <<>>,
                     practical_exercises |-> <<>>,
                     estimated_duration |-> <<"3 days">>,
                     difficulty |-> "advanced"] >>,
     case_studies |-> <<>>,
     resources |-> <<>>,
     estimated_duration |-> <<"3 days">>]

\* valid JSON that is not a curriculum: a list, and an object of another shape
JsonList == [json_list |-> <<>>]

JsonErrorObject == [error |-> <<"rate limit exceeded">>]

TrainingReplies ==
    {[kind |-> "raise"], [kind |-> "nonjson"],
     [kind |-> "json", value |-> LlmCurriculum],
     [kind |-> "json", value |-> JsonList],
     [kind |-> "json", value |-> JsonErrorObject]}

\* the job_description dict of the agent state: complete, and empty
AgentJobDescriptions ==
    { [title |-> T_ML_Intern, domain |-> S_biotech], [unused |-> <<>>] }

InitAssemble ==
    /\ pc = "assemble_call"
    /\ llm \in BOOLEAN
    /\ gap_analysis \in GapAnalyses
    /\ job_title = T_ML_Intern
    /\ domain = S_biotech
    /\ project_info = NoProjectInfo
    /\ llm_reply = NotCalled
    /\ training = NoTraining
    /\ resume_skills = <<>>
    /\ job_description = <<>>
    /\ extract_reply = NotCalled
    /\ gap_reply = NotCalled
    /\ job_skills_dict = NoSkillsDict
    /\ analysis = NoAnalysis
    /\ IdleOverlap
    /\ IdleEnrich
    /\ IdleRest

GenerateTrainingModules ==
    /\ pc = "assemble_call"
    /\ \E reply \in (IF training_llm_called(llm, gap_analysis)
                     THEN TrainingReplies ELSE {NotCalled}) :
         /\ llm_reply' = reply
         /\ training' = generate_training_modules(llm, gap_analysis, job_title,
                                                  domain, reply)
    /\ pc' = "assemble_done"
    /\ UNCHANGED <<resume_skills, overlapVars, gapVars, gap_analysis, domain,
                   project_info, enrichVars,
                   restVars>>

\* the agent workflow's generate on the same gap_analysis
AgentGenerate ==
    /\ pc = "assemble_call"
    /\ ~llm
    /\ \E description_ \in AgentJobDescriptions :
         training' = agent_generate([gap_analysis |-> gap_analysis,
                                     job_description |-> description_]).training_modules
    /\ pc' = "agent_done"
    /\ UNCHANGED <<resume_skills, overlapVars, gapVars, gap_analysis, domain,
                   project_info, llm_reply, enrichVars,
                   restVars>>

NextAssemble == GenerateTrainingModules \/ AgentGenerate

SpecAssemble == InitAssemble /\ [][NextAssemble]_vars

S_React    == <<"R","e","a","c","t">>
S_Postgres == <<"P","o","s","t","g","r","e","s">>
S_Atlas    == <<"A","t","l","a","s">>
S_Analyst  == <<"A","n","a","l","y","s","t">>
S_Acme     == <<"A","c","m","e">>

TechPool == {S_React, S_Postgres}

ProjectGapPool ==
    { [skill |-> S_sql, importance |-> "critical"], [importance |-> "nice-to-have"] }

\* project_info with every key the template reads, with the tech_stack only,
\* and with none of them
ProjectInfosOf(tech_stack) ==
    { [name |-> S_Atlas, tech_stack |-> tech_stack, team_role |-> S_Analyst,
       organization |-> S_Acme],
      [tech_stack |-> tech_stack] }

ProjectInfos ==
    UNION {ProjectInfosOf(t) : t \in SeqUpTo(TechPool, MaxTech)}
    \cup {NoProjectInfo}

InitProject ==
    /\ pc = "project_call"
    /\ llm \in BOOLEAN
    /\ gap_analysis \in {[gap_priority |-> gaps] :
                            gaps \in SeqUpTo(ProjectGapPool, MaxProjectGaps)}
    /\ project_info \in ProjectInfos
    /\ job_title = <<>>
    /\ domain = <<>>
    /\ llm_reply = NotCalled
    /\ training = NoTraining
    /\ resume_skills = <<>>
    /\ job_description = <<>>
    /\ extract_reply = NotCalled
    /\ gap_reply = NotCalled
    /\ job_skills_dict = NoSkillsDict
    /\ analysis = NoAnalysis
    /\ IdleOverlap
    /\ IdleEnrich
    /\ IdleRest

GenerateProjectTraining ==
    /\ pc = "project_call"
    /\ \E reply \in (IF llm THEN TrainingReplies ELSE {NotCalled}) :
         /\ llm_reply' = reply
         /\ training' = generate_project_training(llm, gap_analysis,
                                                  project_info, reply)
    /\ pc' = "project_done"
    /\ UNCHANGED <<resume_skills, overlapVars, gapVars, gap_analysis, domain,
                   project_info, enrichVars,
                   restVars>>

NextProject == GenerateProjectTraining

SpecProject == InitProject /\ [][NextProject]_vars

(***************************************************************************)
(* SemanticScholarService.                                                 *)
(*                                                                         *)
(* None is PyNone, a value that differs from every str and list.  A key    *)
(* the API sends as null is left out of the paper.  The response of the    *)
(* search API is one of                                                    *)
(*   [kind |-> "timeout"]                 the request raised               *)
(*   [kind |-> "status", code |-> c]      a status other than 200          *)
(*   [kind |-> "invalid"]                 status 200, the body is not the  *)
(*                                        JSON object the code reads       *)
(*   [kind |-> "ok", payload |-> d]       status 200 with JSON object d    *)
(***************************************************************************)
PyNone == [none \in {0} |-> 0]

\* Python's truth value of a string or None
truthy(v) == v # PyNone /\ v # <<>>

\* ", ".join(names)
RECURSIVE join_comma(_)
join_comma(names) ==
    IF names = <<>> THEN <<>>
    ELSE IF Len(names) = 1 THEN names[1]
    ELSE names[1] \o <<",", " ">> \o join_comma(Tail(names))

S_paper_url == <<"https://www.semanticscholar.org/paper/">>

\* the dict _format_papers builds for one paper, lines 203-224
format_paper(paper) ==
    LET authors == dict_get(paper, "authors", <<>>)
        first_names == [i \in 1..Len(Prefix(authors, 3)) |->
                           dict_get(authors[i], "name", <<>>)]
        author_names == IF Len(authors) > 3
                        THEN Append(first_names, <<"et al.">>) ELSE first_names
    IN  [id |-> dict_get(paper, "paperId", PyNone),
         title |-> dict_get(paper, "title", <<"Untitled">>),
         abstract |-> IF truthy(dict_get(paper, "abstract", PyNone))
                      THEN Prefix(dict_get(paper, "abstract", <<>>), 500)
                      ELSE PyNone,
         authors |-> IF author_names # <<>> THEN join_comma(author_names)
                     ELSE <<"Unknown">>,
         year |-> dict_get(paper, "year", PyNone),
         citations |-> dict_get(paper, "citationCount", 0),
         venue |-> dict_get(paper, "venue", <<>>),
         url |-> dict_get(paper, "url",
                          S_paper_url \o dict_get(paper, "paperId", S_None)),
         pdf_url |-> IF "openAccessPdf" \in DOMAIN paper
                     THEN dict_get(paper.openAccessPdf, "url", PyNone)
                     ELSE PyNone,
         type |-> "paper"]

\* _format_papers on a list of paper objects
_format_papers(papers) == [i \in DOMAIN papers |-> format_paper(papers[i])]

\* what search_papers returns for a response of the API
search_papers(response) ==
    IF response.kind = "timeout" THEN <<>>
    ELSE IF response.kind = "invalid" THEN <<>>
    ELSE IF response.kind = "ok"
    THEN _format_papers(dict_get(response.payload, "data", <<>>))
    ELSE <<>>

S_sp == <<" ">>
S_case_study == <<" ","c","a","s","e"," ","s","t","u","d","y"," ">>
S_industry_application == <<" ","i","n","d","u","s","t","r","y"," ",
                                "a","p","p","l","i","c","a","t","i","o",
                                "n"," ">>
S_practical_implementation == <<" ","p","r","a","c","t","i","c","a","l",
                                " ","i","m","p","l","e","m","e","n","t",
                                "a","t","i","o","n">>

\* the query of get_papers_for_skills, line 108
skill_query(skill, domain_) ==
    IF domain_ # <<>> THEN strip(skill \o S_sp \o domain_) ELSE skill

\* the queries of get_case_studies, lines 134-138, stripped as at line 144
case_queries(topic, domain_) ==
    << strip(topic \o S_case_study \o domain_),
       strip(topic \o S_industry_application \o domain_),
       strip(topic \o S_practical_implementation) >>

\* results[skill] = papers on a dict kept as a list of (key, value) pairs
dict_set(pairs, key, value) ==
    IF \E i \in DOMAIN pairs : pairs[i][1] = key
    THEN [i \in DOMAIN pairs |->
             IF pairs[i][1] = key THEN <<key, value>> ELSE pairs[i]]
    ELSE Append(pairs, <<key, value>>)

\* the loop of lines 145-148: papers whose id was not seen are appended
RECURSIVE add_unseen(_, _)
add_unseen(papers_so_far, papers) ==
    IF papers = <<>> THEN papers_so_far
    ELSE IF \E i \in DOMAIN papers_so_far : papers_so_far[i].id = Head(papers).id
    THEN add_unseen(papers_so_far, Tail(papers))
    ELSE add_unseen(Append(papers_so_far, Head(papers)), Tail(papers))

(***************************************************************************)
(* TrainingGenerator.enrich_with_research_papers, lines 594-641: the merge *)
(* of the fetched papers into training_data.                               *)
(***************************************************************************)
\* lines 596-609
research_resource(skill, paper) ==
    [type |-> "research_paper",
     title |-> dict_get(paper, "title", <<>>),
     authors |-> dict_get(paper, "authors", <<>>),
     year |-> dict_get(paper, "year", PyNone),
     citations |-> dict_get(paper, "citations", 0),
     url |-> dict_get(paper, "url", <<>>),
     pdf_url |-> dict_get(paper, "pdf_url", PyNone),
     abstract |-> dict_get(paper, "abstract", PyNone),
     skill |-> skill,
     venue |-> dict_get(paper, "venue", <<>>)]

\* lines 594-609: the resources of every skill, in the order of the dict
RECURSIVE research_resources_of(_)
research_resources_of(pairs) ==
    IF pairs = <<>> THEN <<>>
    ELSE [i \in DOMAIN Head(pairs)[2] |->
             research_resource(Head(pairs)[1], Head(pairs)[2][i])]
         \o research_resources_of(Tail(pairs))

\* lines 614-627
case_study_of(paper) ==
    [title |-> dict_get(paper, "title", <<>>),
     description |-> IF truthy(dict_get(paper, "abstract", PyNone))
                     THEN Prefix(dict_get(paper, "abstract", <<>>), 300) \o <<"...">>
                     ELSE <<"Research case study">>,
     authors |-> dict_get(paper, "authors", <<>>),
     year |-> dict_get(paper, "year", PyNone),
     url |-> dict_get(paper, "url", <<>>),
     pdf_url |-> dict_get(paper, "pdf_url", PyNone),
     type |-> "research",
     learning_outcomes |-> << <<"Understand real-world application">>,
                              <<"Learn from published research">>,
                              <<"Apply academic insights to practice">> >>]

\* training_data[key] = value
dict_put(d, key, value) ==
    [k \in DOMAIN d \cup {key} |-> IF k = key THEN value ELSE d[k]]

\* a variant of the merge that puts the research resources first
resources_research_first(existing_resources, research_resources) ==
    research_resources \o existing_resources

\* line 631: existing_resources + research_resources
resources_merged(existing_resources, research_resources) ==
    existing_resources \o research_resources

\* a variant of the merge that leaves training_data alone when no paper was
\* found
merge_papers_only_if_found(data, pairs, case_study_papers) ==
    LET research_resources == research_resources_of(pairs)
        new_case_studies == [i \in DOMAIN case_study_papers |->
                                case_study_of(case_study_papers[i])]
        case_studies == dict_get(data, "case_studies", <<>>)
        existing_resources == dict_get(data, "resources", <<>>)
    IN  IF research_resources = <<>> /\ case_study_papers = <<>> THEN data
        ELSE IF case_studies = PyNone \/ existing_resources = PyNone THEN data
        ELSE dict_put(dict_put(dict_put(data,
                 "resources", resources_merged(existing_resources, research_resources)),
                 "case_studies", case_studies \o new_case_studies),
                 "research_papers_count", Len(research_resources))

\* lines 594-641: training_data after the merge.  enriched_case_studies is
\* the list object held by training_data when the key is present, so the
\* appends of lines 614-627 reach training_data at once; a case_studies or
\* resources that is None raises (AttributeError at the first append,
\* TypeError at line 631) and leaves what was done before in place.
merge_papers(data, pairs, case_study_papers) ==
    LET research_resources == research_resources_of(pairs)
        new_case_studies == [i \in DOMAIN case_study_papers |->
                                case_study_of(case_study_papers[i])]
        case_studies == dict_get(data, "case_studies", <<>>)
        existing_resources == dict_get(data, "resources", <<>>)
    IN  IF case_studies = PyNone /\ case_study_papers # <<>> THEN data
        ELSE LET appended == IF "case_studies" \in DOMAIN data /\ case_studies # PyNone
                             THEN dict_put(data, "case_studies",
                                           case_studies \o new_case_studies)
                             ELSE data
                 enriched_case_studies ==
                     IF case_studies = PyNone THEN PyNone
                     ELSE case_studies \o new_case_studies
             IN  IF existing_resources = PyNone THEN appended
                 ELSE dict_put(dict_put(dict_put(appended,
                          "resources", resources_merged(existing_resources,
                                                        research_resources)),
                          "case_studies", enriched_case_studies),
                          "research_papers_count", Len(research_resources))

(***************************************************************************)
(* Specification of enrich_with_research_papers on bounded inputs, one     *)
(* step per await: each search request and each delay.                     *)
(***************************************************************************)
\* papers as the search API sends them
RawPaperA ==
    [paperId |-> <<"p1">>, title |-> <<"Survey of SQL engines">>,
     abstract |-> <<"a", "b", "s">>, year |-> 2021, citationCount |-> 12,
     url |-> <<"https://example.org/p1">>,
     authors |-> << [name |-> <<"Ann">>], [name |-> <<"Bob">>] >>,
     venue |-> <<"VLDB">>, openAccessPdf |-> [url |-> <<"https://example.org/p1.pdf">>]]

RawPaperB ==
    [paperId |-> <<"p2">>, title |-> <<"Learning in practice">>,
     year |-> 2019,
     authors |-> << [name |-> <<"Cy">>], [name |-> <<"Di">>], [name |-> <<"Ed">>],
                    [name |-> <<"Flo">>] >>]

RawPaperC == [paperId |-> <<"p3">>, title |-> <<"Case C">>, year |-> 2020]

RawPaperD == [paperId |-> <<"p4">>, title |-> <<"Case D">>, year |-> 2018]

\* the responses of the search API that make search_papers fail: a timeout,
\* the rate limit, a server error, a malformed payload
FailedResponses ==
    { [kind |-> "timeout"], [kind |-> "status", code |-> 429],
      [kind |-> "status", code |-> 500], [kind |-> "invalid"] }

FoundResponses ==
    { [kind |-> "ok", payload |-> [data |-> <<RawPaperA, RawPaperB>>]],
      [kind |-> "ok", payload |-> [data |-> <<RawPaperC, RawPaperD>>]] }

SearchResponses == FailedResponses \cup FoundResponses

EnrichSkillPool == {S_sql, S_machine_learning}

\* the curricula passed to enrich_with_research_papers: from the template
\* assembler, from the project-mode assembler, two a model call can have
\* returned (one without resources and case_studies, one with both null),
\* and one that was enriched before
TemplateCurriculum ==
    _generate_template_based(<<[skill |-> S_sql, importance |-> "critical"]>>,
                             T_ML_Intern, S_biotech)

ProjectCurriculum ==
    _generate_project_training_template(
        <<[skill |-> S_sql, importance |-> "critical"]>>,
        [name |-> S_Atlas, tech_stack |-> <<S_React>>, team_role |-> S_Analyst,
         organization |-> S_Acme])

BareCurriculum ==
    [title |-> <<"Generated program">>, modules |-> <<>>,
     estimated_duration |-> <<"3 days">>]

NullListsCurriculum ==
    [title |-> <<"Generated program">>, modules |-> <<>>,
     case_studies |-> PyNone, resources |-> PyNone,
     estimated_duration |-> <<"3 days">>]

\* a curriculum as a model reply can give it: resources null, case_studies
\* a list
NullResourcesCurriculum ==
    [title |-> <<"Generated program">>, modules |-> <<>>,
     case_studies |-> <<>>, resources |-> PyNone,
     estimated_duration |-> <<"3 days">>]

EnrichedCurriculum ==
    [title |-> <<"Generated program">>, modules |-> <<>>,
     resources |-> << [type |-> "tutorial", title |-> <<"Online Tutorials">>,
                       url |-> <<"https://example.org/t">>] >>,
     case_studies |-> <<>>,
     research_papers_count |-> 2,
     estimated_duration |-> <<"3 days">>]

CurriculumOf(shape) ==
    IF shape = "template" THEN TemplateCurriculum
    ELSE IF shape = "project" THEN ProjectCurriculum
    ELSE IF shape = "bare" THEN BareCurriculum
    ELSE IF shape = "enriched" THEN EnrichedCurriculum
    ELSE IF shape = "null_resources" THEN NullResourcesCurriculum
    ELSE NullListsCurriculum

CurriculumShapes ==
    {"template", "project", "bare", "null_lists", "null_resources", "enriched"}

InitEnrich ==
    /\ pc = "enrich_call"
    /\ \E shape \in CurriculumShapes :
         /\ training_data = CurriculumOf(shape)
         /\ training_given = CurriculumOf(shape)
    /\ enrich_skills \in SeqUpTo(EnrichSkillPool, MaxEnrichSkills)
    /\ domain \in {<<>>, S_biotech}
    /\ papers_by_skill = <<>>
    /\ all_papers = <<>>
    /\ loop_i = 0
    /\ events = <<>>
    /\ enriched = NotReturned
    /\ resume_skills = <<>>
    /\ IdleOverlap
    /\ IdleGap
    /\ gap_analysis = NoGapAnalysis
    /\ project_info = NoProjectInfo
    /\ llm_reply = NotCalled
    /\ training = NoTraining
    /\ IdleRest

\* a variant that iterates over every skill passed in
skills_not_cut == enrich_skills

\* the skills get_papers_for_skills iterates over: skill_gaps[:5] at line 581,
\* cut again at line 107
skills_searched == Prefix(Prefix(enrich_skills, 5), 5)

\* line 587
main_topic == IF enrich_skills # <<>> THEN enrich_skills[1] ELSE domain

SearchEvent(query, limit, response) ==
    [op |-> "search", query |-> query, limit |-> limit,
     failed |-> response \in FailedResponses]

SleepEvent(ms) == [op |-> "sleep", ms |-> ms]

\* the call: up to the first await
EnrichCall ==
    /\ pc = "enrich_call"
    /\ loop_i' = 1
    /\ pc' = IF skills_searched # <<>> THEN "skill_search" ELSE "case_search"
    /\ UNCHANGED <<resume_skills, overlapVars, gapVars, asmVars, training_data,
                   training_given, enrich_skills, papers_by_skill, all_papers,
                   events, enriched,
                   restVars>>

\* get_papers_for_skills, lines 108-110: one search request and its response
SearchSkill ==
    /\ pc = "skill_search"
    /\ \E response \in SearchResponses :
         LET skill == skills_searched[loop_i]
         IN  /\ papers_by_skill' = dict_set(papers_by_skill, skill,
                                            search_papers(response))
             /\ events' = Append(events,
                                 SearchEvent(skill_query(skill, domain), 3, response))
    /\ pc' = "skill_sleep"
    /\ UNCHANGED <<resume_skills, overlapVars, gapVars, asmVars, training_data,
                   training_given, enrich_skills, all_papers, loop_i, enriched,
                   restVars>>

\* a variant that gives up the remaining skills after a failed search
SleepAfterSkillStopOnFailure ==
    /\ pc = "skill_sleep"
    /\ events' = Append(events, SleepEvent(500))
    /\ IF loop_i < Len(skills_searched) /\ ~events[Len(events)].failed
       THEN loop_i' = loop_i + 1 /\ pc' = "skill_search"
       ELSE loop_i' = 1 /\ pc' = "case_search"
    /\ UNCHANGED <<resume_skills, overlapVars, gapVars, asmVars, training_data,
                   training_given, enrich_skills, papers_by_skill, all_papers,
                   enriched,
                   restVars>>

\* get_papers_for_skills, line 113: the delay; then the next skill, or the
\* first query of get_case_studies
SleepAfterSkill ==
    /\ pc = "skill_sleep"
    /\ events' = Append(events, SleepEvent(500))
    /\ IF loop_i < Len(skills_searched)
       THEN loop_i' = loop_i + 1 /\ pc' = "skill_search"
       ELSE loop_i' = 1 /\ pc' = "case_search"
    /\ UNCHANGED <<resume_skills, overlapVars, gapVars, asmVars, training_data,
                   training_given, enrich_skills, papers_by_skill, all_papers,
                   enriched,
                   restVars>>

\* a variant that appends the case studies of each response to the
\* curriculum as soon as it arrives
SearchCaseStudiesAndAppend ==
    /\ pc = "case_search"
    /\ \E response \in SearchResponses :
         /\ all_papers' = add_unseen(all_papers, search_papers(response))
         /\ events' = Append(events,
                SearchEvent(case_queries(main_topic, domain)[loop_i], 2, response))
         /\ training_data' =
                IF "case_studies" \in DOMAIN training_data
                   /\ training_data.case_studies # PyNone
                THEN dict_put(training_data, "case_studies",
                         training_data.case_studies
                         \o [i \in DOMAIN search_papers(response) |->
                                case_study_of(search_papers(response)[i])])
                ELSE training_data
    /\ pc' = "case_sleep"
    /\ UNCHANGED <<resume_skills, overlapVars, gapVars, asmVars,
                   training_given, enrich_skills, papers_by_skill, loop_i, enriched,
                   restVars>>

\* get_case_studies, lines 143-148: one search request and its response
SearchCaseStudies ==
    /\ pc = "case_search"
    /\ \E response \in SearchResponses :
         /\ all_papers' = add_unseen(all_papers, search_papers(response))
         /\ events' = Append(events,
                SearchEvent(case_queries(main_topic, domain)[loop_i], 2, response))
    /\ pc' = "case_sleep"
    /\ UNCHANGED <<resume_skills, overlapVars, gapVars, asmVars, training_data,
                   training_given, enrich_skills, papers_by_skill, loop_i, enriched,
                   restVars>>

\* a variant that goes on to the next query at once
NextQueryWithoutDelay ==
    /\ pc = "case_sleep"
    /\ loop_i < 3
    /\ loop_i' = loop_i + 1
    /\ pc' = "case_search"
    /\ UNCHANGED <<resume_skills, overlapVars, gapVars, asmVars, training_data,
                   training_given, enrich_skills, papers_by_skill, all_papers,
                   events, enriched,
                   restVars>>

\* get_case_studies, line 149: the delay before the next query
SleepAfterCaseStudies ==
    /\ pc = "case_sleep"
    /\ loop_i < 3
    /\ events' = Append(events, SleepEvent(300))
    /\ loop_i' = loop_i + 1
    /\ pc' = "case_search"
    /\ UNCHANGED <<resume_skills, overlapVars, gapVars, asmVars, training_data,
                   training_given, enrich_skills, papers_by_skill, all_papers,
                   enriched,
                   restVars>>

\* the last delay of get_case_studies, its return (line 151) and the rest of
\* enrich_with_research_papers, lines 594-641, which has no further await
MergeAndReturn ==
    /\ pc = "case_sleep"
    /\ loop_i = 3
    /\ events' = Append(events, SleepEvent(300))
    /\ training_data' = merge_papers(training_data, papers_by_skill,
                                     Prefix(all_papers, 3))
    /\ enriched' = training_data'
    /\ pc' = "enrich_done"
    /\ UNCHANGED <<resume_skills, overlapVars, gapVars, asmVars, training_given,
                   enrich_skills, papers_by_skill, all_papers, loop_i,
                   restVars>>

NextEnrich ==
    \/ EnrichCall
    \/ SearchSkill
    \/ SleepAfterSkill
    \/ SearchCaseStudies
    \/ SleepAfterCaseStudies
    \/ MergeAndReturn

SpecEnrich == InitEnrich /\ [][NextEnrich]_vars

(***************************************************************************)
(* Specification of calculate_skill_overlap on bounded inputs.             *)
(***************************************************************************)
InitOverlap ==
    /\ pc = "overlap_call"
    /\ resume_skills \in SeqUpTo(SkillPool, MaxResume)
    /\ job_skills \in SeqUpTo(SkillPool, MaxTarget)
    /\ overlap = NoOverlap
    /\ IdleGap
    /\ IdleAsm
    /\ IdleEnrich
    /\ IdleRest

CalculateSkillOverlap ==
    /\ pc = "overlap_call"
    /\ overlap' = calculate_skill_overlap(resume_skills, job_skills)
    /\ pc' = "overlap_done"
    /\ UNCHANGED <<resume_skills, job_skills, gapVars, asmVars, enrichVars,
                   restVars>>

NextOverlap == CalculateSkillOverlap

SpecOverlap == InitOverlap /\ [][NextOverlap]_vars

(***************************************************************************)
(* Claims about calculate_skill_overlap (checked under SpecOverlap).       *)
(***************************************************************************)
job_normalized_of(job) == [j \in DOMAIN job |-> normalize_skill(job[j])]

resume_normalized_of(resume) == [i \in DOMAIN resume |-> normalize_skill(resume[i])]

\* number of positions of sequence s holding x
Count(s, x) == Cardinality({i \in DOMAIN s : s[i] = x})

\* b = u \o a \o v for some u and v
Occurs(a, b) ==
    \E i \in 1..(Len(b) + 1) : \E j \in (i - 1)..Len(b) : SubSeq(b, i, j) = a

\* the target token t is covered by some candidate token of rn
Covered(t, rn) == \E i \in DOMAIN rn : Occurs(t, rn[i]) \/ Occurs(rn[i], t)

\* C1 as stated: len(matched) + len(missing) equals the number of distinct
\* normalized target skills, for every candidate list and target list.
C1_DistinctCount ==
    pc = "overlap_done" =>
        Len(overlap.matching) + Len(overlap.missing)
            = Cardinality({normalize_skill(job_skills[j]) : j \in DOMAIN job_skills})

\* C1 amended: every entry of the target list is classified exactly once, so
\* len(matched) + len(missing) equals the length of the target list (each
\* normalized skill occurs in matched and missing together as often as in the
\* target list); that is the number of distinct normalized target skills
\* exactly when no two entries of the target list normalize to the same skill.
C1_EachEntryOnce ==
    pc = "overlap_done" =>
        LET jn == job_normalized_of(job_skills)
            distinct == Cardinality({jn[j] : j \in DOMAIN jn})
            total == Len(overlap.matching) + Len(overlap.missing)
        IN  /\ total = Len(job_skills)
            /\ \A j \in DOMAIN jn :
                  Count(overlap.matching, jn[j]) + Count(overlap.missing, jn[j])
                      = Count(jn, jn[j])
            /\ (total = distinct) <=> (\A j, k \in DOMAIN jn : jn[j] = jn[k] => j = k)

\* a target list naming one skill twice, by its alias and by its canonical form
C1_Witness ==
    /\ pc = "overlap_done"
    /\ job_skills = <<S_MLsp, S_machine_learning>>
    /\ resume_skills = <<S_python>>
    /\ overlap.missing = <<S_machine_learning, S_machine_learning>>

\* C2: a normalized target skill is in matched iff it is a substring of some
\* normalized candidate skill or some normalized candidate skill is a
\* substring of it, and in missing otherwise (both in target order); with an
\* empty candidate list every target skill is missing.
C2_MatchedIffSubstring ==
    pc = "overlap_done" =>
        LET jn == job_normalized_of(job_skills)
            rn == resume_normalized_of(resume_skills)
            IsCovered(t) == Covered(t, rn)
            NotCovered(t) == ~Covered(t, rn)
        IN  /\ overlap.matching = SelectSeq(jn, IsCovered)
            /\ overlap.missing = SelectSeq(jn, NotCovered)
            /\ (resume_skills = <<>> =>
                    overlap.matching = <<>> /\ overlap.missing = jn)

\* a target matched only because a candidate skill is a substring of it,
\* next to a target that no candidate covers
C2_Witness ==
    /\ pc = "overlap_done"
    /\ resume_skills = <<S_python>>
    /\ job_skills = <<S_AdvPy, S_r>>
    /\ overlap.matching = <<lower(S_AdvPy)>>
    /\ overlap.missing = <<S_r>>

(***************************************************************************)
(* Claims about analyze_gaps (checked under SpecGap).                      *)
(***************************************************************************)
\* the gap reply is a failure of the collaborator: it raised, returned text
\* that is not JSON, or JSON that is not a list of objects with numeric
\* priorities
GapReplyFailed ==
    \/ gap_reply.kind \in {"raise", "nonjson"}
    \/ /\ gap_reply.kind = "json"
       /\ \/ gap_reply.value.type # "list"
          \/ \E i \in DOMAIN gap_reply.value.items :
                \/ ~is_dict(gap_reply.value.items[i])
                \/ priority_key(gap_reply.value.items[i])[1] # "int"

\* what analyze_gaps returns for the same resume and job skills when no
\* collaborator is configured
WithoutCollaborator ==
    analyze_gaps_from(FALSE, resume_skills, job_skills_dict, job_title, NotCalled)

\* C4: for any failed collaborator outcome during gap prioritization
\* analyze_gaps returns, without raising, the same skill_gaps and
\* gap_priority as when no collaborator is configured.
C4_GapFallbackNeverRaises ==
    (pc = "analyze_done" /\ GapReplyFailed) =>
        /\ ~analysis.raised
        /\ analysis.skill_gaps = WithoutCollaborator.skill_gaps
        /\ analysis.gap_priority = WithoutCollaborator.gap_priority

\* C10: the returned confidence_score is 100 * len(matched) / len(all target
\* skills) rounded to 2 decimal places (the nearest hundredth) and lies in
\* [0, 100]; candidate [python, data science] against required [python,
\* machine learning, sql] gives matched [python], missing [machine learning,
\* sql] and 33.33.
C10_ConfidenceScore ==
    (pc = "analyze_done" /\ ~analysis.raised) =>
        LET m == Len(analysis.existing_skills)
            t == Len(job_skills_dict.required \o job_skills_dict.preferred)
            score == analysis.confidence_score
            diff == score * t - 10000 * m
        IN  /\ 0 <= score /\ score <= 10000
            /\ t > 0 => (2 * diff <= t /\ -2 * diff <= t)
            /\ ( /\ resume_skills = <<S_python, S_data_science>>
                 /\ job_skills_dict.required = <<S_python, S_machine_learning, S_sql>>
                 /\ job_skills_dict.preferred = <<>> )
               => /\ analysis.existing_skills = <<S_python>>
                  /\ analysis.missing_skills = <<S_machine_learning, S_sql>>
                  /\ score = 3333

\* the scenario of the claim, returned by analyze_gaps
C10_Witness ==
    /\ pc = "analyze_done"
    /\ ~analysis.raised
    /\ resume_skills = <<S_python, S_data_science>>
    /\ job_skills_dict = [required  |-> <<S_python, S_machine_learning, S_sql>>,
                          preferred |-> <<>>]
    /\ analysis.existing_skills = <<S_python>>
    /\ analysis.confidence_score = 3333

(***************************************************************************)
(* Claims about the single-phase assembler, over SpecAssemble.             *)
(***************************************************************************)
skill_gaps_given == dict_get(gap_analysis, "skill_gaps", <<>>)

priority_gaps_given == dict_get(gap_analysis, "gap_priority", <<>>)

Min(a, b) == IF a < b THEN a ELSE b

\* the fields of a curriculum
CurriculumFields ==
    {"title", "description", "learning_objectives", "modules", "case_studies",
     "resources", "estimated_duration"}

ConformsToCurriculum(value) == CurriculumFields \subseteq DOMAIN value

\* the model call of generate_training_modules was made and raised (a timeout
\* included), returned text that is not JSON, or returned JSON that is not a
\* curriculum
TrainingReplyFailed ==
    /\ pc = "assemble_done"
    /\ \/ llm_reply.kind \in {"raise", "nonjson"}
       \/ llm_reply.kind = "json" /\ ~ConformsToCurriculum(llm_reply.value)

\* C3: whenever the model call of generate_training_modules raises, returns
\* unparseable output or returns valid JSON that is not a curriculum, the
\* returned curriculum is the one the template assembler produces for the
\* same gaps, job title and domain.
C3_TemplateOnFailure ==
    TrainingReplyFailed =>
        training = _generate_template_based(priority_gaps_given, job_title, domain)

\* generate_training_modules returned the output of the template assembler or
\* of the orientation default
TemplateAssembled ==
    /\ pc = "assemble_done"
    /\ llm_reply.kind \in {"not_called", "raise", "nonjson"}

\* the skill a template module refers to: what follows the fixed text of its
\* first learning objective
SkillOf(module) == Tail(module.learning_objectives[1])

OrientationOnly ==
    /\ Len(training.modules) = 1
    /\ training.modules[1].title = <<"Role Introduction">>

C9_AlwaysTwiceModules ==
    (TemplateAssembled \/ pc = "agent_done") =>
        training.estimated_duration = Str(2 * Len(training.modules)) \o <<" weeks">>

\* C9 (amended): a curriculum assembled from the prioritized gaps, by the
\* template assembler or by the agent's generate, has estimated_duration
\* "<2 x number of modules> weeks", 5 prioritized gaps giving 5 modules and
\* "10 weeks"; the orientation default returned for an empty skill_gaps has
\* 1 module and "1 week".
C9_TwiceModulesUnlessOrientation ==
    /\ TemplateAssembled =>
          IF skill_gaps_given = <<>>
          THEN /\ Len(training.modules) = 1
               /\ training.estimated_duration = <<"1 week">>
          ELSE /\ training.estimated_duration =
                      Str(2 * Len(training.modules)) \o <<" weeks">>
               /\ Len(priority_gaps_given) = 5 =>
                      /\ Len(training.modules) = 5
                      /\ training.estimated_duration = <<"1", "0", " weeks">>
    /\ pc = "agent_done" =>
          /\ training.estimated_duration =
                 Str(2 * Len(training.modules)) \o <<" weeks">>
          /\ Len(priority_gaps_given) = 5 =>
                 /\ Len(training.modules) = 5
                 /\ training.estimated_duration = <<"1", "0", " weeks">>

\* the scenario of the claim: 5 prioritized gaps for ML Intern in biotech
C9_Witness ==
    /\ pc = "assemble_done"
    /\ ~llm
    /\ job_title = T_ML_Intern
    /\ domain = S_biotech
    /\ Len(skill_gaps_given) = 5
    /\ Len(priority_gaps_given) = 5
    /\ Len(training.modules) = 5
    /\ training.estimated_duration = <<"1", "0", " weeks">>

(***************************************************************************)
(* Claims about the project-mode assembler, over SpecProject.              *)
(***************************************************************************)
tech_stack_given == dict_get(project_info, "tech_stack", <<>>)

IsProjectContext(module) == Head(module.title) = "Project Context: "

\* C8: the project-mode template returns modules = foundation modules
\* followed by project modules; the foundation part has min(3, number of
\* prioritized gaps) modules, the project part min(3, len(tech_stack)) tech
\* modules followed by exactly one project-context module, the last element,
\* also for an empty tech_stack; phases 1 and 2 hold exactly these two
\* sub-sequences; 2 gaps and a tech_stack of 2 give 5 modules and 3
\* milestones.
C8_TwoPhaseModules ==
    (pc = "project_done" /\ llm_reply.kind \in {"not_called", "raise", "nonjson"}) =>
        LET f == Min(3, Len(priority_gaps_given))
            t == Min(3, Len(tech_stack_given))
            modules == training.modules
        IN  /\ Len(training.phases) = 2
            /\ modules = training.phases[1].modules \o training.phases[2].modules
            /\ Len(training.phases[1].modules) = f
            /\ Len(training.phases[2].modules) = t + 1
            /\ \A i \in 1..f :
                  /\ modules[i].phase = "foundation"
                  /\ Tail(modules[i].description) =
                        dict_get(priority_gaps_given[i], "skill", S_Unknown_Skill)
            /\ \A i \in 1..t :
                  /\ modules[f + i].phase = "project"
                  /\ modules[f + i].title = <<"Project Tech: ">> \o tech_stack_given[i]
            /\ IsProjectContext(modules[Len(modules)])
            /\ \A i \in 1..(Len(modules) - 1) : ~IsProjectContext(modules[i])
            /\ (Len(priority_gaps_given) = 2 /\ Len(tech_stack_given) = 2) =>
                  /\ Len(modules) = 5
                  /\ Len(training.milestones) = 3

\* the scenario of the claim: 2 gaps and tech_stack [React, Postgres]
C8_Witness ==
    /\ pc = "project_done"
    /\ ~llm
    /\ Len(priority_gaps_given) = 2
    /\ tech_stack_given = <<S_React, S_Postgres>>
    /\ Len(training.modules) = 5
    /\ Len(training.milestones) = 3
    /\ IsProjectContext(training.modules[5])

(***************************************************************************)
(* Claims about enrich_with_research_papers, over SpecEnrich.              *)
(***************************************************************************)
\* every search request of the run failed
AllSearchesFailed ==
    \A i \in DOMAIN events : events[i].op = "search" => events[i].failed

KeptAsPrefix(key) ==
    LET before == dict_get(training_given, key, <<>>)
        after  == dict_get(training_data, key, <<>>)
    IN  IF before = PyNone THEN after = PyNone
        ELSE /\ after # PyNone
             /\ Len(after) >= Len(before)
             /\ SubSeq(after, 1, Len(before)) = before

FieldsLeftAlone ==
    {"title", "description", "learning_objectives", "modules", "phases",
     "estimated_duration", "milestones"}

\* C6: enrich_with_research_papers only appends: the resources and the
\* case_studies of the curriculum passed in are a prefix of those of the
\* curriculum at every point of the call and at its return, and title,
\* description, learning_objectives, modules, phases, estimated_duration and
\* milestones stay as they were.
C6_PureAppend ==
    /\ KeptAsPrefix("resources")
    /\ KeptAsPrefix("case_studies")
    /\ \A k \in FieldsLeftAlone :
          /\ k \in DOMAIN training_given <=> k \in DOMAIN training_data
          /\ k \in DOMAIN training_given => training_data[k] = training_given[k]
    /\ pc = "enrich_done" => enriched = training_data

\* a project curriculum returned with research resources and case studies
\* appended
C6_Witness ==
    /\ pc = "enrich_done"
    /\ training_given = ProjectCurriculum
    /\ Len(enriched.resources) > Len(training_given.resources)
    /\ Len(enriched.case_studies) > Len(training_given.case_studies)
    /\ enriched.resources[Len(enriched.resources)].type = "research_paper"
    /\ enriched.milestones = training_given.milestones

(***************************************************************************)
(* Further claims about analyze_gaps, over SpecGap.                        *)
(***************************************************************************)
Range(list) == {list[i] : i \in DOMAIN list}

all_job_skills_given == job_skills_dict.required \o job_skills_dict.preferred

\* what analyze_gaps returns for another resume and the same job skills
AnalysisOf(resume) ==
    analyze_gaps_with(FALSE,
                      calculate_skill_overlap(resume, all_job_skills_given),
                      job_skills_dict, job_title, NotCalled)

\* C11: for a fixed target skill list the confidence score does not decrease
\* when the set of matched target skills grows (compared with the resume
\* extended by any one skill of the input pool), and for an empty target
\* list analyze_gaps returns, without raising, matched = [], missing = []
\* and confidence_score = 0.
C11_ScoreMonotoneAndZero ==
    pc = "analyze_done" =>
        /\ ~analysis.raised =>
              \A added \in GapResumePool :
                 LET grown == AnalysisOf(Append(resume_skills, added))
                 IN  Range(analysis.existing_skills)
                         \subseteq Range(grown.existing_skills)
                     => analysis.confidence_score <= grown.confidence_score
        /\ all_job_skills_given = <<>> =>
              /\ ~analysis.raised
              /\ analysis.existing_skills = <<>>
              /\ analysis.missing_skills = <<>>
              /\ analysis.confidence_score = 0

\* one of three target skills is matched, and a resume that also has data
\* science matches two of them and scores higher
C11_Witness ==
    /\ pc = "analyze_done"
    /\ ~analysis.raised
    /\ resume_skills = <<S_python>>
    /\ Len(all_job_skills_given) = 3
    /\ analysis.existing_skills = <<S_python>>
    /\ analysis.confidence_score = 3333
    /\ AnalysisOf(<<S_python, S_data_science>>).existing_skills
           = <<S_python, S_data_science>>
    /\ AnalysisOf(<<S_python, S_data_science>>).confidence_score = 6667

(***************************************************************************)
(* Further claims about calculate_skill_overlap, over SpecOverlap.         *)
(***************************************************************************)
\* the list with the entries at positions k and k + 1 exchanged; these
\* exchanges generate every permutation of the list
Exchanged(list, k) ==
    [i \in DOMAIN list |-> IF i = k THEN list[k + 1] ELSE IF i = k + 1 THEN list[k] ELSE list[i]]

\* C12: permuting the candidate list leaves the set of matched skills and
\* the set of missing skills unchanged, and permuting the target list
\* permutes matched and missing with it: each holds the same skills as
\* before, in the order of the permuted target list. Stated for the exchange
\* of any two neighbouring entries, of every candidate and target list.
C12_OrderOfArguments ==
    pc = "overlap_done" =>
        LET WasMatched(t) == t \in Range(overlap.matching)
            WasMissing(t) == t \in Range(overlap.missing)
        IN  /\ \A k \in 1..(Len(resume_skills) - 1) :
                  LET other == calculate_skill_overlap(Exchanged(resume_skills, k), job_skills)
                  IN  /\ Range(other.matching) = Range(overlap.matching)
                      /\ Range(other.missing) = Range(overlap.missing)
            /\ \A k \in 1..(Len(job_skills) - 1) :
                  LET permuted == Exchanged(job_skills, k)
                      other == calculate_skill_overlap(resume_skills, permuted)
                  IN  /\ other.matching = SelectSeq(job_normalized_of(permuted), WasMatched)
                      /\ other.missing = SelectSeq(job_normalized_of(permuted), WasMissing)

\* the second of two candidates matches the first target and the second
\* target is missing; either list reversed gives the same two sets
C12_Witness ==
    /\ pc = "overlap_done"
    /\ resume_skills = <<S_MLsp, S_AdvPy>>
    /\ job_skills = <<S_python, S_r>>
    /\ overlap.matching = <<S_python, S_r>>
    /\ calculate_skill_overlap(<<S_AdvPy, S_MLsp>>, job_skills) = overlap
    /\ calculate_skill_overlap(resume_skills, <<S_r, S_python>>).matching
           = <<S_r, S_python>>

(***************************************************************************)
(* GapAnalyzer.normalize_skill on its own: one call on any string over the *)
(* characters of the alias keys in both cases, a space and a tab.          *)
(***************************************************************************)
SkillChars == {" ", "\t", "M", "L", "m", "l", "d", "A", "a", "i", "r", "c", "t", "s"}

InitNormalize ==
    /\ pc = "normalize_call"
    /\ skill_in \in SeqUpTo(SkillChars, MaxSkillLen)
    /\ normalized = NotReturned
    /\ resume_skills = <<>>
    /\ IdleOverlap
    /\ IdleGap
    /\ IdleAsm
    /\ IdleEnrich
    /\ IdleUpload
    /\ IdleProgress

NormalizeSkill ==
    /\ pc = "normalize_call"
    /\ normalized' = [returned |-> TRUE, value |-> normalize_skill(skill_in)]
    /\ pc' = "normalize_done"
    /\ UNCHANGED <<resume_skills, overlapVars, gapVars, asmVars, enrichVars,
                   skill_in, uploadVars, progressVars>>

NextNormalize == NormalizeSkill

SpecNormalize == InitNormalize /\ [][NextNormalize]_vars

\* C13: normalize_skill is idempotent: normalizing the string it returned
\* gives that string again, for every input string (surrounding whitespace,
\* mixed case and alias keys included).
C13_NormalizeIdempotent ==
    pc = "normalize_done" =>
        normalize_skill(normalized.value) = normalized.value

\* an alias key in upper case with whitespace on both sides
C13_Witness ==
    /\ pc = "normalize_done"
    /\ skill_in = <<" ", "M", "L">> \/ skill_in = <<"A", "i", "\t">>
    /\ normalized.value \in {S_machine_learning, S_artificial_intelligence}
    /\ normalize_skill(normalized.value) = normalized.value

(***************************************************************************)
(* Claims about the gap details of analyze_gaps, over SpecGap.             *)
(***************************************************************************)
\* lines 280-289 build the details: no model call was made, or it raised or
\* its text was not JSON
OnDeterministicPath == gap_reply.kind \in {"not_called", "raise", "nonjson"}

\* the skill is one of the job's required skills, in whatever form given
IsRequiredSkill(missing_skill) ==
    \E r \in DOMAIN job_skills_dict.required :
        normalize_skill(job_skills_dict.required[r]) = missing_skill

\* C14: on the deterministic path the i-th missing skill gets priority i,
\* the fixed reason naming job_title and empty related_skills, and its
\* importance is "important" exactly when it is one of the job's required
\* skills, whatever the case or alias form the required skill was given in,
\* and "nice-to-have" otherwise.
C14_DeterministicDetails ==
    (pc = "analyze_done" /\ ~analysis.raised /\ OnDeterministicPath) =>
        /\ Len(analysis.skill_gaps) = Min(10, Len(analysis.missing_skills))
        /\ \A i \in DOMAIN analysis.skill_gaps :
              LET gap == analysis.skill_gaps[i]
              IN  /\ gap.skill = analysis.missing_skills[i]
                  /\ gap.priority = PyInt(i)
                  /\ gap.reason = <<"Required for ">> \o job_title \o <<" position">>
                  /\ gap.related_skills = <<>>
                  /\ gap.importance = IF IsRequiredSkill(gap.skill)
                                      THEN "important" ELSE "nice-to-have"

\* C15: in every result of analyze_gaps, on either path, skill_gaps has at
\* most 10 entries and gap_priority is the prefix of skill_gaps of length
\* min(5, len(skill_gaps)).
C15_TenGapsFivePriorities ==
    (pc = "analyze_done" /\ ~analysis.raised) =>
        /\ Len(analysis.skill_gaps) <= 10
        /\ analysis.gap_priority
               = SubSeq(analysis.skill_gaps, 1, Min(5, Len(analysis.skill_gaps)))

(***************************************************************************)
(* Claims about extract_job_skills, over SpecGap.                          *)
(***************************************************************************)
ExtractedListKeys == {"required_skills", "preferred_skills", "domain_knowledge", "tools"}

\* the extraction call raised, or its text was not JSON, or not a JSON
\* object, or an object with one of the four fields not a list
ExtractReplyFailed ==
    \/ extract_reply.kind \in {"raise", "nonjson"}
    \/ /\ extract_reply.kind = "json"
       /\ \/ extract_reply.value.type # "dict"
          \/ \E key \in ExtractedListKeys \cap DOMAIN extract_reply.value.fields :
                extract_reply.value.fields[key][1] # "list"

\* C19: when the extraction call fails or returns malformed or wrongly
\* shaped output, extract_job_skills returns exactly the required and
\* preferred lists of the keyword fallback with no collaborator configured.
C19_ExtractFallbackOnly ==
    (pc \in {"analyze_gap_details", "analyze_done"} /\ ExtractReplyFailed) =>
        job_skills_dict = extract_job_skills(FALSE, NotCalled, job_description)

(***************************************************************************)
(* Claims about the order of skill_gaps, over SpecGap.                     *)
(***************************************************************************)
\* the gap details as discovered, before the sort of line 292: the items of
\* a non-empty reply, else the details of lines 281-289
DiscoveredGaps ==
    IF /\ gap_reply.kind = "json"
       /\ gap_reply.value.type = "list"
       /\ gap_reply.value.items # <<>>
    THEN gap_reply.value.items
    ELSE basic_gap_details(analysis.missing_skills, job_skills_dict.required, job_title)

NonDecreasingPriority(gaps) ==
    \A i, j \in DOMAIN gaps :
        i < j => ~key_less(priority_key(gaps[j]), priority_key(gaps[i]))

\* the entries of each priority are those discovered, in discovery order
TiesInDiscoveryOrder(gaps, discovered) ==
    /\ Len(gaps) = Len(discovered)
    /\ \A k \in {priority_key(discovered[i]) : i \in DOMAIN discovered} :
          LET HasPriority(item) == priority_key(item) = k
          IN  SelectSeq(gaps, HasPriority) = SelectSeq(discovered, HasPriority)

\* C20 as stated: skill_gaps is ordered by non-decreasing priority, entries
\* of equal priority keep their discovery order, and each entry's priority
\* equals its 1-based position in skill_gaps.
C20_PriorityIsPosition ==
    (pc = "analyze_done" /\ ~analysis.raised) =>
        /\ NonDecreasingPriority(analysis.skill_gaps)
        /\ TiesInDiscoveryOrder(analysis.skill_gaps, DiscoveredGaps)
        /\ \A i \in DOMAIN analysis.skill_gaps :
              priority_key(analysis.skill_gaps[i]) = PyInt(i)

\* C20 amended: skill_gaps is ordered by non-decreasing priority (an entry
\* without a priority counting as 999), entries of equal priority keep their
\* discovery order, and on the deterministic path each entry's priority
\* equals its 1-based position; the priorities of a collaborator's reply are
\* returned as rated.
C20_StableByPriority ==
    (pc = "analyze_done" /\ ~analysis.raised) =>
        /\ NonDecreasingPriority(analysis.skill_gaps)
        /\ TiesInDiscoveryOrder(analysis.skill_gaps, DiscoveredGaps)
        /\ OnDeterministicPath =>
              \A i \in DOMAIN analysis.skill_gaps :
                  /\ analysis.skill_gaps[i].skill = analysis.missing_skills[i]
                  /\ analysis.skill_gaps[i].priority = PyInt(i)
        /\ ~OnDeterministicPath /\ DiscoveredGaps = gap_reply.value.items =>
              \A i \in DOMAIN DiscoveredGaps :
                  \E j \in DOMAIN analysis.skill_gaps :
                      analysis.skill_gaps[j] = DiscoveredGaps[i]

\* eleven rated skills, three of them rated 1: they lead skill_gaps in the
\* order of the reply
C20_Witness ==
    /\ pc = "analyze_done"
    /\ ~analysis.raised
    /\ gap_reply.kind = "json"
    /\ DiscoveredGaps = LongGapItems
    /\ Len(analysis.skill_gaps) = Len(LongGapItems)
    /\ analysis.skill_gaps[1] = LongGapItems[2]
    /\ analysis.skill_gaps[2] = LongGapItems[4]
    /\ analysis.skill_gaps[3] = LongGapItems[9]
    /\ analysis.skill_gaps[4].priority = PyInt(2)

(***************************************************************************)
(* A further claim about enrich_with_research_papers, over SpecEnrich.     *)
(***************************************************************************)
\* C18: enrich_with_research_papers returns (it never raises) and is atomic:
\* the curriculum returned is either exactly the one passed in, or has every
\* computed research resource appended to resources and every computed case
\* study appended to case_studies; a merge that fails after the searches
\* leaves case_studies and resources as they were.
C18_AtomicMerge ==
    pc = "enrich_done" =>
        LET case_study_papers == Prefix(all_papers, 3)
            research_resources == research_resources_of(papers_by_skill)
            new_case_studies ==
                [i \in DOMAIN case_study_papers |-> case_study_of(case_study_papers[i])]
            resources_given == dict_get(training_given, "resources", <<>>)
            case_studies_given == dict_get(training_given, "case_studies", <<>>)
        IN  /\ enriched = training_data
            /\ \/ enriched = training_given
               \/ /\ resources_given # PyNone
                  /\ case_studies_given # PyNone
                  /\ enriched.resources = resources_given \o research_resources
                  /\ enriched.case_studies = case_studies_given \o new_case_studies

(***************************************************************************)
(* ResumeParser.parse_resume and the upload_resume route of api/routes.py  *)
(*                                                                         *)
(* file_content is "text" (the bytes of a plain-text resume), "pdf" (the   *)
(* bytes of a PDF resume) or "binary" (bytes that are neither).  What      *)
(* parse_resume returns is [raised |-> FALSE, ...the keys of the dict] or  *)
(* [raised |-> TRUE, exc, message].                                        *)
(***************************************************************************)
E_pdf == <<".","p","d","f">>

E_txt == <<".","t","x","t">>

E_docx == <<".","d","o","c","x">>

\* str.endswith(suffix)
endswith(s, suffix) ==
    /\ Len(s) >= Len(suffix)
    /\ SubSeq(s, Len(s) - Len(suffix) + 1, Len(s)) = suffix

\* parse_pdf: the text of the pages, or ValueError for bytes pdfplumber
\* cannot open
parse_pdf(content) ==
    IF content = "pdf"
    THEN [raised |-> FALSE, text |-> <<"Skills: python (pdf pages)">>]
    ELSE [raised |-> TRUE, exc |-> "ValueError",
          message |-> <<"Failed to parse PDF: ", "No /Root object">>]

\* parse_text: the bytes decoded as utf-8, else as latin-1, which decodes
\* any bytes
parse_text(content) ==
    IF content = "text"
    THEN [raised |-> FALSE, text |-> <<"Skills: python">>]
    ELSE [raised |-> FALSE, text |-> <<"(bytes decoded as latin-1)">>]

\* the pattern of extract_skills on the texts above
extract_skills(raw_text) ==
    IF raw_text[1] \in {"Skills: python", "Skills: python (pdf pages)"}
    THEN <<S_python>> ELSE <<>>

\* lines 265-281
parsed_from(name, extracted) ==
    IF extracted.raised THEN extracted
    ELSE [raised    |-> FALSE,
          filename  |-> name,
          raw_text  |-> extracted.text,
          skills    |-> extract_skills(extracted.text),
          experience |-> <<>>,
          education |-> <<>>,
          parsed_data |-> [skills |-> extract_skills(extracted.text),
                           experience |-> <<>>, education |-> <<>>]]

\* a variant that reads a file of any other type as text
parse_resume_text_fallback(content, name) ==
    IF endswith(lower(name), E_pdf) THEN parsed_from(name, parse_pdf(content))
    ELSE parsed_from(name, parse_text(content))

parse_resume(content, name) ==
    IF endswith(lower(name), E_pdf) THEN parsed_from(name, parse_pdf(content))
    ELSE IF endswith(lower(name), E_txt) \/ endswith(lower(name), E_docx)
    THEN parsed_from(name, parse_text(content))
    ELSE [raised |-> TRUE, exc |-> "ValueError",
          message |-> <<"Unsupported file type: ">> \o name]

StemChars == {"c", "v", ".", "_"}

UploadExtensions ==
    { <<>>, E_pdf, E_txt, E_docx,
      <<".","P","D","F">>, <<".","P","d","f">>, <<".","T","X","T">>, <<".","D","o","c","X">>,
      <<".","d","o","c">>, <<".","p","d","f","x">>, <<".","r","t","f">>, <<"p","d","f">>,
      <<".","p","d","f",".","b","a","k">>, <<".","t","x","t"," ">> }

InitUpload ==
    /\ pc = "upload_call"
    /\ \E stem \in SeqUpTo(StemChars, MaxStemLen) :
         \E extension \in UploadExtensions : filename = stem \o extension
    /\ file_content \in {"text", "pdf", "binary"}
    /\ parsed = NotReturned
    /\ resumes = <<>>
    /\ upload_response = NotReturned
    /\ gridfs_files = <<>>
    /\ resume_skills = <<>>
    /\ IdleOverlap
    /\ IdleGap
    /\ IdleAsm
    /\ IdleEnrich
    /\ IdleNorm
    /\ IdleProgress

\* upload_resume, lines 79-83: the file is read and parsed
UploadParse ==
    /\ pc = "upload_call"
    /\ parsed' = parse_resume(file_content, filename)
    /\ pc' = "upload_parsed"
    /\ UNCHANGED <<resume_skills, overlapVars, gapVars, asmVars, enrichVars,
                   normVars, filename, file_content, resumes, upload_response,
                   gridfs_files, progressVars>>

\* upload_resume, lines 85-107: the row is stored and the response made, or
\* any exception (of the parser, of the database) becomes a 400
UploadRespond ==
    /\ pc = "upload_parsed"
    /\ IF parsed.raised
       THEN /\ upload_response' =
                   [returned |-> TRUE, status |-> 400,
                    detail |-> <<"Failed to process resume: ">> \o parsed.message]
            /\ resumes' = resumes
       ELSE \E committed \in BOOLEAN :
              IF committed
              THEN /\ resumes' = Append(resumes,
                                    [id |-> Len(resumes) + 1,
                                     filename |-> parsed.filename,
                                     raw_text |-> parsed.raw_text,
                                     skills |-> parsed.skills])
                   /\ upload_response' =
                          [returned |-> TRUE, status |-> 200,
                           id |-> Len(resumes) + 1,
                           filename |-> parsed.filename,
                           skills |-> parsed.skills,
                           message |-> <<"Resume uploaded and parsed successfully">>]
              ELSE /\ resumes' = resumes
                   /\ upload_response' =
                          [returned |-> TRUE, status |-> 400,
                           detail |-> <<"Failed to process resume: ", "database error">>]
    /\ pc' = "upload_done"
    /\ UNCHANGED <<resume_skills, overlapVars, gapVars, asmVars, enrichVars,
                   normVars, filename, file_content, parsed, gridfs_files,
                   progressVars>>

NextUpload == UploadParse \/ UploadRespond

SpecUpload == InitUpload /\ [][NextUpload]_vars

\* the part of the name from its last dot on, empty when it has no dot
ExtensionOf(name) ==
    LET dots == {i \in DOMAIN name : name[i] = "."}
    IN  IF dots = {} THEN <<>>
        ELSE SubSeq(name, CHOOSE i \in dots : \A j \in dots : j <= i, Len(name))

RecognizedExtension(name) == lower(ExtensionOf(name)) \in {E_pdf, E_txt, E_docx}

\* C16: for every filename whose extension is not .pdf, .txt or .docx in
\* any case, parse_resume raises the unsupported-file-type error naming the
\* file, returns no text and no skills, and upload_resume answers with an
\* error status and stores no resume.
C16_UnsupportedFormatFails ==
    (pc \in {"upload_parsed", "upload_done"} /\ ~RecognizedExtension(filename)) =>
        /\ parsed.raised
        /\ parsed.exc = "ValueError"
        /\ parsed.message = <<"Unsupported file type: ">> \o filename
        /\ DOMAIN parsed \cap {"raw_text", "skills", "parsed_data"} = {}
        /\ pc = "upload_done" =>
              /\ upload_response.status = 400
              /\ upload_response.detail
                     = <<"Failed to process resume: ", "Unsupported file type: ">> \o filename
              /\ resumes = <<>>

\* a plain-text resume uploaded as cv.pdf.bak is refused
C16_Witness ==
    /\ pc = "upload_done"
    /\ filename = <<"c","v",".","p","d","f",".","b","a","k">>
    /\ file_content = "text"
    /\ ~RecognizedExtension(filename)
    /\ parsed.raised
    /\ upload_response.status = 400
    /\ resumes = <<>>

(***************************************************************************)
(* The training-module routes of api/mongo_routes.py: the insert of        *)
(* generate_training_modules and update_module_progress.                   *)
(*                                                                         *)
(* A progress value is <<"float", h>>, h in hundredths (10000 is 100.0),   *)
(* or <<"nan", 0>>.  A module_id is [valid |-> FALSE] (not the text of an  *)
(* ObjectId) or [valid |-> TRUE, oid |-> k]; the module stored k-th has    *)
(* ObjectId k.                                                             *)
(***************************************************************************)
PyFloat(h) == <<"float", h>>

NaN == <<"nan", 0>>

\* progress < bound and progress > bound on floats: false for NaN
float_lt(x, bound) == x[1] = "float" /\ x[2] < bound

float_gt(x, bound) == x[1] = "float" /\ x[2] > bound

float_ge(x, bound) == x[1] = "float" /\ x[2] >= bound

\* a variant that takes only a progress above 100 as completed
progress_status_above_100(progress) ==
    IF float_gt(progress, 10000) THEN "completed"
    ELSE IF float_gt(progress, 0) THEN "in_progress"
    ELSE "pending"

\* line 429
progress_status(progress) ==
    IF float_ge(progress, 10000) THEN "completed"
    ELSE IF float_gt(progress, 0) THEN "in_progress"
    ELSE "pending"

ProgressValues ==
    {PyFloat(h) : h \in {-1, 0, 1, 5000, 9999, 10000, 10001}} \cup {NaN}

ModuleIds ==
    {[valid |-> FALSE]} \cup {[valid |-> TRUE, oid |-> k] : k \in 1..(MaxModules + 1)}

InitProgress ==
    /\ pc = "serving"
    /\ stored_modules = <<>>
    /\ http_request = NotReturned
    /\ http_response = NotReturned
    /\ resume_skills = <<>>
    /\ IdleOverlap
    /\ IdleGap
    /\ IdleAsm
    /\ IdleEnrich
    /\ IdleNorm
    /\ IdleUpload

\* generate_training_modules: 404 when the gap analysis or its job
\* description is not found, else the document of lines 326-343 is inserted
GenerateTrainingModulesRoute ==
    /\ pc = "serving"
    /\ Len(stored_modules) < MaxModules
    /\ \E found \in BOOLEAN :
         /\ http_request' = [op |-> "generate", found |-> found]
         /\ IF found
            THEN /\ stored_modules' = Append(stored_modules,
                        [status |-> "pending", progress |-> PyFloat(0)])
                 /\ http_response' = [returned |-> TRUE, status |-> 200,
                                      id |-> Len(stored_modules) + 1]
            ELSE /\ stored_modules' = stored_modules
                 /\ http_response' = [returned |-> TRUE, status |-> 404,
                                      detail |-> "Gap analysis not found"]
    /\ UNCHANGED <<pc, resume_skills, overlapVars, gapVars, asmVars, enrichVars,
                   normVars, uploadVars>>

\* update_module_progress, lines 417-445
UpdateModuleProgress ==
    /\ pc = "serving"
    /\ \E module_id \in ModuleIds : \E progress \in ProgressValues :
         /\ http_request' = [op |-> "update",
                             module_id |-> module_id, progress |-> progress]
         /\ IF ~module_id.valid
            THEN /\ http_response' = [returned |-> TRUE, status |-> 400,
                                      detail |-> "Invalid ID format"]
                 /\ stored_modules' = stored_modules
            ELSE IF float_lt(progress, 0) \/ float_gt(progress, 10000)
            THEN /\ http_response' = [returned |-> TRUE, status |-> 400,
                                      detail |-> "Progress must be between 0 and 100"]
                 /\ stored_modules' = stored_modules
            ELSE IF module_id.oid \notin DOMAIN stored_modules
            THEN /\ http_response' = [returned |-> TRUE, status |-> 404,
                                      detail |-> "Training module not found"]
                 /\ stored_modules' = stored_modules
            ELSE /\ stored_modules' =
                        [stored_modules EXCEPT ![module_id.oid] =
                            [status |-> progress_status(progress),
                             progress |-> progress]]
                 /\ http_response' = [returned |-> TRUE, status |-> 200,
                                      message |-> "Progress updated",
                                      progress |-> progress,
                                      module_status |-> progress_status(progress)]
    /\ UNCHANGED <<pc, resume_skills, overlapVars, gapVars, asmVars, enrichVars,
                   normVars, uploadVars>>

NextProgress == GenerateTrainingModulesRoute \/ UpdateModuleProgress

SpecProgress == InitProgress /\ [][NextProgress]_vars

\* the status the claim gives a progress between 0 and 100
StatusFor(h) ==
    IF h = 10000 THEN "completed" ELSE IF h = 0 THEN "pending" ELSE "in_progress"

\* every stored module whose progress is a number has it in [0, 100] and
\* the status of that progress
StatusConsistent ==
    \A k \in DOMAIN stored_modules :
        LET module == stored_modules[k]
        IN  module.progress[1] = "float" =>
                /\ 0 <= module.progress[2]
                /\ module.progress[2] <= 10000
                /\ module.status = StatusFor(module.progress[2])

\* a request with progress below 0 or above 100 is answered 400 and changes
\* no stored module
RejectsOutOfRange ==
    (/\ http_request'.op = "update"
     /\ http_request'.progress[1] = "float"
     /\ http_request'.progress[2] < 0 \/ http_request'.progress[2] > 10000)
    => /\ http_response'.status = 400
       /\ stored_modules' = stored_modules

\* an accepted update stores the progress and the status of that progress,
\* and changes no other module
StoresAccepted ==
    (/\ http_request'.op = "update"
     /\ http_response'.status = 200
     /\ http_request'.progress[1] = "float")
    => LET k == http_request'.module_id.oid
       IN  /\ k \in DOMAIN stored_modules
           /\ stored_modules'[k] = [status |-> StatusFor(http_request'.progress[2]),
                                    progress |-> http_request'.progress]
           /\ \A other \in DOMAIN stored_modules \ {k} :
                  stored_modules'[other] = stored_modules[other]

\* C17: update_module_progress rejects every progress below 0 or above 100
\* and leaves the stored modules as they are; every accepted update stores
\* status completed for progress 100, in_progress for a progress between 0
\* and 100 and pending for progress 0; so after any sequence of creations
\* and updates every stored module's status is the one of its progress.
C17_ProgressAndStatus ==
    /\ []StatusConsistent
    /\ [][RejectsOutOfRange /\ StoresAccepted]_vars

\* the first module is completed, the second is half done, and an update to
\* 100.01 has just been refused
C17_Witness ==
    /\ Len(stored_modules) = 2
    /\ stored_modules[1] = [status |-> "completed", progress |-> PyFloat(10000)]
    /\ stored_modules[2] = [status |-> "in_progress", progress |-> PyFloat(5000)]
    /\ http_request.op = "update"
    /\ http_request.module_id = [valid |-> TRUE, oid |-> 1]
    /\ http_request.progress = PyFloat(10001)
    /\ http_response.status = 400

(***************************************************************************)
(* Both template assemblers together: a run is one call of the single-     *)
(* phase generator (or of the agent) or one call of the project-mode       *)
(* generator.                                                              *)
(***************************************************************************)
InitTemplates == InitAssemble \/ InitProject

NextTemplates == NextAssemble \/ NextProject

SpecTemplates == InitTemplates /\ [][NextTemplates]_vars

\* the project-mode template was used: no model call, or one that raised or
\* did not return JSON
ProjectTemplateAssembled ==
    /\ pc = "project_done"
    /\ llm_reply.kind \in {"not_called", "raise", "nonjson"}

ImportanceOf(gap) == dict_get(gap, "importance", "important")

\* every module built from a gap by the single-phase template has difficulty
\* "intermediate" for a critical gap and "beginner" otherwise, and lasts
\* "1-2 weeks"
SinglePhaseRules ==
    (TemplateAssembled /\ skill_gaps_given # <<>>) =>
        \A i \in DOMAIN training.modules :
            /\ training.modules[i].difficulty =
                   IF ImportanceOf(priority_gaps_given[i]) = "critical"
                   THEN "intermediate" ELSE "beginner"
            /\ training.modules[i].estimated_duration = <<"1-2 weeks">>

\* C21 as stated: the modules the single-phase template builds from gaps
\* and the foundation modules of the project-mode template follow the same
\* rules: difficulty "intermediate" for a critical gap and "beginner"
\* otherwise, estimated_duration "1-2 weeks".
C21_SameRulesInBothModes ==
    /\ SinglePhaseRules
    /\ ProjectTemplateAssembled =>
          \A i \in DOMAIN training.phases[1].modules :
              /\ training.phases[1].modules[i].difficulty =
                     IF ImportanceOf(priority_gaps_given[i]) = "critical"
                     THEN "intermediate" ELSE "beginner"
              /\ training.phases[1].modules[i].estimated_duration = <<"1-2 weeks">>

\* C21 amended: the single-phase rules hold for the single-phase template
\* only; every foundation module of the project-mode template has
\* difficulty "intermediate", whatever the importance of its gap, and
\* estimated_duration "1 week".
C21_RulesPerMode ==
    /\ SinglePhaseRules
    /\ ProjectTemplateAssembled =>
          \A i \in DOMAIN training.phases[1].modules :
              /\ training.phases[1].modules[i].difficulty = "intermediate"
              /\ training.phases[1].modules[i].estimated_duration = <<"1 week">>

\* a critical gap and a gap without importance "critical" turned into two
\* foundation modules of the same difficulty
C21_Witness ==
    /\ ProjectTemplateAssembled
    /\ Len(priority_gaps_given) = 2
    /\ ImportanceOf(priority_gaps_given[1]) = "critical"
    /\ ImportanceOf(priority_gaps_given[2]) = "nice-to-have"
    /\ Len(training.phases[1].modules) = 2
    /\ training.phases[1].modules[1].difficulty = "intermediate"
    /\ training.phases[1].modules[2].difficulty = "intermediate"
    /\ training.phases[1].modules[2].estimated_duration = <<"1 week">>

(***************************************************************************)
(* A further claim about the project-mode assembler, over SpecProject.     *)
(***************************************************************************)
\* C22: the project-mode template returns exactly three milestones, in the
\* order Foundation Complete, Project Onboarded, Fully Productive, at week
\* = number of foundation modules, week = foundation modules + 1 and week =
\* total number of modules, weeks that do not decrease in that order.
C22_MilestoneWeeks ==
    ProjectTemplateAssembled =>
        LET milestones == training.milestones
            foundation == Len(training.phases[1].modules)
        IN  /\ Len(milestones) = 3
            /\ milestones[1].milestone = <<"Foundation Complete">>
            /\ milestones[2].milestone = <<"Project Onboarded">>
            /\ milestones[3].milestone = <<"Fully Productive">>
            /\ milestones[1].week = foundation
            /\ milestones[2].week = foundation + 1
            /\ milestones[3].week = Len(training.modules)
            /\ milestones[1].week <= milestones[2].week
            /\ milestones[2].week <= milestones[3].week

(***************************************************************************)
(* enrich_with_research_papers with cancellation: the task running it can  *)
(* be cancelled at any await, that is while a search request or a delay is *)
(* pending; CancelledError is not an Exception, so neither search_papers   *)
(* (line 85) nor the enrichment (line 637) catches it and the call ends    *)
(* there without returning.                                                *)
(***************************************************************************)
AwaitingSearch == pc \in {"skill_search", "case_search"}

AwaitingDelay == pc \in {"skill_sleep", "case_sleep"}

CancelEnrich ==
    /\ AwaitingSearch \/ AwaitingDelay
    /\ pc' = "enrich_cancelled"
    /\ UNCHANGED <<resume_skills, overlapVars, gapVars, asmVars, enrichVars,
                   restVars>>

NextEnrichCancel == NextEnrich \/ CancelEnrich

SpecEnrichCancel == InitEnrich /\ [][NextEnrichCancel]_vars

\* C23: when an enrichment is cancelled while it waits on a search request
\* or on a pacing delay, the curriculum passed in is exactly as it was given:
\* nothing appended to resources or case_studies, no field added, and
\* nothing was returned in its place.
C23_CancelledLeavesCurriculum ==
    pc = "enrich_cancelled" =>
        /\ training_data = training_given
        /\ enriched = NotReturned

\* cancelled after searches that found papers for a skill and case studies
C23_Witness ==
    /\ pc = "enrich_cancelled"
    /\ all_papers # <<>>
    /\ \E i \in DOMAIN papers_by_skill : papers_by_skill[i][2] # <<>>
    /\ training_given = TemplateCurriculum
    /\ training_data = TemplateCurriculum

(***************************************************************************)
(* Claims about the searches of one enrichment, over SpecEnrich.           *)
(***************************************************************************)
IsSearch(event) == event.op = "search"

\* the queries of the search requests made so far, in order
QueriesIssued ==
    LET searches == SelectSeq(events, IsSearch)
    IN  [i \in DOMAIN searches |-> searches[i].query]

\* one query per skill searched, then the three case-study queries
QueriesOfFullRun ==
    [i \in DOMAIN skills_searched |-> skill_query(skills_searched[i], domain)]
    \o case_queries(main_topic, domain)

\* this step received a failed response to a search request
FailedSearchStep ==
    /\ Len(events') = Len(events) + 1
    /\ IsSearch(events'[Len(events')])
    /\ events'[Len(events')].failed

\* C24: a search that meets a rate limit (429), another non-200 status, a
\* timeout or a malformed payload gives an empty result list for its query
\* (the skill gets no papers, no case study is added) and the enrichment
\* goes on: every run issues the query of every skill and all three
\* case-study queries and returns.
C24_FailedSearchGivesNoResults ==
    /\ [][FailedSearchStep =>
            /\ pc = "skill_search" =>
                  \E i \in DOMAIN papers_by_skill' :
                      /\ papers_by_skill'[i][1] = skills_searched[loop_i]
                      /\ papers_by_skill'[i][2] = <<>>
            /\ pc = "case_search" => all_papers' = all_papers
            /\ pc' \in {"skill_sleep", "case_sleep"}]_vars
    /\ [](pc = "enrich_done" =>
            /\ QueriesIssued = QueriesOfFullRun
            /\ enriched # NotReturned)

\* the search for the first of two skills failed, the second found papers
C24_Witness ==
    /\ pc = "enrich_done"
    /\ Len(skills_searched) = 2
    /\ skills_searched[1] # skills_searched[2]
    /\ events[1].failed
    /\ ~events[3].failed
    /\ papers_by_skill[1][2] = <<>>
    /\ papers_by_skill[2][2] # <<>>
    /\ \E i \in DOMAIN events : IsSearch(events[i]) /\ events[i].failed /\ i > 4
    /\ enriched.research_papers_count = 2

(***************************************************************************)
(* The enrichment of a curriculum for a gap list of more than five skills. *)
(***************************************************************************)
LongSkillList ==
    <<S_sql, S_machine_learning, S_python, S_deep_learning, S_data_science, S_r>>

InitEnrichLong ==
    /\ pc = "enrich_call"
    /\ training_data = TemplateCurriculum
    /\ training_given = TemplateCurriculum
    /\ enrich_skills = LongSkillList
    /\ domain \in {<<>>, S_biotech}
    /\ papers_by_skill = <<>>
    /\ all_papers = <<>>
    /\ loop_i = 0
    /\ events = <<>>
    /\ enriched = NotReturned
    /\ resume_skills = <<>>
    /\ IdleOverlap
    /\ IdleGap
    /\ gap_analysis = NoGapAnalysis
    /\ project_info = NoProjectInfo
    /\ llm_reply = NotCalled
    /\ training = NoTraining
    /\ IdleRest

SpecEnrichTopics == InitEnrichLong /\ [][NextEnrich]_vars

\* a search request for the papers of one of the skills passed in
IsTopicSearch(event) ==
    /\ IsSearch(event)
    /\ \E i \in DOMAIN enrich_skills :
           event.query = skill_query(enrich_skills[i], domain)

TopicSearches == {i \in DOMAIN events : IsTopicSearch(events[i])}

\* what the returned curriculum holds under key beyond what was passed in
AppendedTo(key) ==
    LET given == dict_get(training_given, key, <<>>)
        got == dict_get(enriched, key, <<>>)
    IN  IF given = PyNone \/ got = PyNone THEN <<>>
        ELSE SubSeq(got, Len(given) + 1, Len(got))

\* the resource was made from a paper held for the skill of its tag, and a
\* search for that skill found papers
TaggedWithItsTopic(resource) ==
    /\ \E i \in DOMAIN papers_by_skill :
           /\ papers_by_skill[i][1] = resource.skill
           /\ \E k \in DOMAIN papers_by_skill[i][2] :
                  resource = research_resource(resource.skill,
                                               papers_by_skill[i][2][k])
    /\ \E i \in TopicSearches :
           /\ events[i].query = skill_query(resource.skill, domain)
           /\ ~events[i].failed

\* C25: one enrichment queries at most 5 topics and requests at most 3 items
\* for each; every resource it appends carries the skill it was fetched
\* for; it appends at most 3 case studies, made from papers whose
\* identifiers are pairwise distinct.
C25_EnrichmentCaps ==
    /\ Cardinality(TopicSearches) <= 5
    /\ \A i \in TopicSearches : events[i].limit <= 3
    /\ pc = "enrich_done" =>
          LET case_study_papers == Prefix(all_papers, 3)
              resources_appended == AppendedTo("resources")
              case_studies_appended == AppendedTo("case_studies")
          IN  /\ \A i \in DOMAIN resources_appended :
                     TaggedWithItsTopic(resources_appended[i])
              /\ Len(case_studies_appended) <= 3
              /\ case_studies_appended \in
                     { <<>>, [i \in DOMAIN case_study_papers |->
                                 case_study_of(case_study_papers[i])] }
              /\ \A i, k \in DOMAIN case_study_papers :
                     i # k => case_study_papers[i].id # case_study_papers[k].id

\* six skills were passed in and five were searched; the case-study queries
\* found four distinct papers, one query repeating what another found, and
\* three case studies were appended; the resources carry several tags
C25_Witness ==
    /\ pc = "enrich_done"
    /\ Len(enrich_skills) = 6
    /\ Cardinality(TopicSearches) = 5
    /\ \A i \in DOMAIN events :
           IsSearch(events[i]) /\ ~IsTopicSearch(events[i]) => ~events[i].failed
    /\ Len(all_papers) = 4
    /\ Len(AppendedTo("case_studies")) = 3
    /\ \E i, k \in DOMAIN AppendedTo("resources") :
           AppendedTo("resources")[i].skill # AppendedTo("resources")[k].skill

(***************************************************************************)
(* Missing context fields, over SpecTemplates.                             *)
(***************************************************************************)
LacksSkill(gap) == "skill" \notin DOMAIN gap

\* the texts of a module of TrainingGeneratorAgent.generate that name the
\* skill, written for the skill given
AgentTextsFor(skill, title_, domain_) ==
    [title |-> skill,
     description |-> <<"Learn ">> \o skill \o <<" for ">> \o title_,
     learning_objectives |->
        << <<"Understand ">> \o skill,
           <<"Apply ">> \o skill \o <<" in ">> \o domain_ \o <<" contexts">> >>]

\* the module names its skill as AgentTextsFor gives it, under one of the
\* job descriptions the agent is called with
AgentModuleNames(n, skill) ==
    \E description_ \in AgentJobDescriptions :
        LET texts == AgentTextsFor(skill,
                         dict_get(description_, "title", S_Position),
                         dict_get(description_, "domain", S_general))
        IN  /\ training.title = <<"Training Program for ">>
                                \o dict_get(description_, "title", S_Position)
            /\ training.modules[n].title = <<"Module ">> \o Str(n) \o <<": ">>
                                           \o texts.title
            /\ training.modules[n].description = texts.description
            /\ training.modules[n].learning_objectives = texts.learning_objectives

\* C26: assembly does not raise on missing context fields and fills them
\* with default literals: the agent assembles a job description without
\* title or domain with "Position" and "general"; a gap without a skill name
\* is assembled as the gap with a placeholder skill ("Unknown Skill" in the
\* template assemblers, "Skill" in the agent); a project_info lacking name,
\* tech_stack, team_role or organization is assembled with "Project", no
\* technologies, "Developer" and "Organization".
C26_DefaultsForMissingFields ==
    /\ TemplateAssembled /\ ~OrientationOnly =>
          \A n \in DOMAIN training.modules :
              LacksSkill(priority_gaps_given[n]) =>
                  training.modules[n] =
                      template_module(n,
                          dict_put(priority_gaps_given[n], "skill", S_Unknown_Skill),
                          job_title, domain)
    /\ pc = "agent_done" =>
          /\ "raised" \notin DOMAIN training
          /\ \A n \in DOMAIN training.modules :
                 AgentModuleNames(n, dict_get(priority_gaps_given[n], "skill", S_Skill))
    /\ ProjectTemplateAssembled =>
          /\ "raised" \notin DOMAIN training
          /\ training =
                 _generate_project_training_template(priority_gaps_given,
                     [name |-> dict_get(project_info, "name", S_Project),
                      tech_stack |-> dict_get(project_info, "tech_stack", <<>>),
                      team_role |-> dict_get(project_info, "team_role", S_Developer),
                      organization |->
                          dict_get(project_info, "organization", S_Organization)])
          /\ \A n \in DOMAIN training.phases[1].modules :
                 LacksSkill(priority_gaps_given[n]) =>
                     training.phases[1].modules[n].description =
                         <<"Build foundational knowledge in ">> \o S_Unknown_Skill

(***************************************************************************)
(* The pacing of the search requests, over SpecEnrich.                     *)
(***************************************************************************)
IsSleep(event) == event.op = "sleep"

\* C27: within one enrichment run a delay lies between every two successive
\* search requests, in the loop over the skills, in the loop over the
\* case-study queries, and between the two loops.
C27_DelayBetweenSearches ==
    \A i, k \in DOMAIN events :
        IsSearch(events[i]) /\ IsSearch(events[k]) /\ i < k =>
            \E j \in DOMAIN events :
                /\ i < j
                /\ j < k
                /\ IsSleep(events[j])
                /\ events[j].ms > 0

\* a finished run of two skill searches and three case-study queries, with
\* the delays of both loops
C27_Witness ==
    /\ pc = "enrich_done"
    /\ Len(skills_searched) = 2
    /\ Cardinality({i \in DOMAIN events : IsSearch(events[i])}) = 5
    /\ events[2] = SleepEvent(500)
    /\ events[4] = SleepEvent(500)
    /\ events[6] = SleepEvent(300)
    /\ events[8] = SleepEvent(300)
    /\ IsSearch(events[9])

(***************************************************************************)
(* The number of modules for every shape of gap record, over SpecAssemble. *)
(***************************************************************************)
\* the record names no gap under either key
RecordHasNoGaps == skill_gaps_given = <<>> /\ priority_gaps_given = <<>>

\* C28: without a model, whatever skill_gaps and gap_priority the record
\* holds (either may be empty or absent), generate_training_modules returns
\* a curriculum of at least one module, and the orientation curriculum only
\* for a record without any gap.
C28_SomeModuleForEveryRecord ==
    (pc = "assemble_done" /\ ~llm) =>
        /\ Len(training.modules) >= 1
        /\ OrientationOnly => RecordHasNoGaps

(***************************************************************************)
(* The upload_resume route of api/mongo_routes.py, which keeps the         *)
(* uploaded file in GridFS and the resume document in db.resumes, next to  *)
(* the route of api/routes.py.                                             *)
(***************************************************************************)
\* upload_resume of mongo_routes.py, lines 54-69: the file is read and
\* stored in GridFS (or the store raises), then parsed
MongoUploadStoreAndParse ==
    /\ pc = "upload_call"
    /\ \E uploaded \in BOOLEAN :
         IF uploaded
         THEN /\ gridfs_files' = Append(gridfs_files,
                                    [file_id |-> Len(gridfs_files) + 1,
                                     filename |-> filename,
                                     content |-> file_content])
              /\ parsed' = parse_resume(file_content, filename)
         ELSE /\ gridfs_files' = gridfs_files
              /\ parsed' = [raised |-> TRUE, exc |-> "PyMongoError",
                            message |-> <<"storage error">>]
    /\ pc' = "mongo_parsed"
    /\ UNCHANGED <<resume_skills, overlapVars, gapVars, asmVars, enrichVars,
                   normVars, filename, file_content, resumes, upload_response,
                   progressVars>>

\* upload_resume of mongo_routes.py, lines 71-97: the document is inserted
\* and the response made, or any exception becomes a 400
MongoUploadRespond ==
    /\ pc = "mongo_parsed"
    /\ IF parsed.raised
       THEN /\ upload_response' =
                   [returned |-> TRUE, status |-> 400,
                    detail |-> <<"Failed to process resume: ">> \o parsed.message]
            /\ resumes' = resumes
       ELSE \E inserted \in BOOLEAN :
              IF inserted
              THEN /\ resumes' = Append(resumes,
                                    [id |-> Len(resumes) + 1,
                                     filename |-> parsed.filename,
                                     raw_text |-> parsed.raw_text,
                                     file_id |-> Len(gridfs_files),
                                     skills |-> parsed.skills])
                   /\ upload_response' =
                          [returned |-> TRUE, status |-> 200,
                           id |-> Len(resumes) + 1,
                           filename |-> parsed.filename,
                           skills |-> parsed.skills,
                           message |-> <<"Resume uploaded and parsed successfully">>]
              ELSE /\ resumes' = resumes
                   /\ upload_response' =
                          [returned |-> TRUE, status |-> 400,
                           detail |-> <<"Failed to process resume: ", "database error">>]
    /\ pc' = "mongo_done"
    /\ UNCHANGED <<resume_skills, overlapVars, gapVars, asmVars, enrichVars,
                   normVars, filename, file_content, parsed, gridfs_files,
                   progressVars>>

NextUploadStores ==
    \/ NextUpload
    \/ MongoUploadStoreAndParse
    \/ MongoUploadRespond

SpecUploadStores == InitUpload /\ [][NextUploadStores]_vars

\* the upload was answered after parse_resume rejected the file
UploadRejected ==
    /\ pc \in {"upload_done", "mongo_done"}
    /\ parsed.raised
    /\ parsed.exc = "ValueError"

\* C29: a resume upload rejected for an unsupported file type or a parsing
\* failure is answered with an error and leaves the stored state as it was
\* before the request, in both variants of the route: no resume row or
\* document and no file is kept for it.
C29_RejectedUploadStoresNothing ==
    UploadRejected =>
        /\ upload_response.status = 400
        /\ resumes = <<>>
        /\ gridfs_files = <<>>

(***************************************************************************)
(* The keyword fallback of extract_job_skills on job descriptions that     *)
(* name the keywords written in upper case in the list.                    *)
(***************************************************************************)
T_SQL == <<"S","Q","L">>

T_R   == <<"R">>

T_rct == <<"r","c","t">>

KeywordTokens == {T_SQL, T_R, T_rct, T_Python}

KeywordDescriptions ==
    {JoinTokens(t) : t \in SeqUpTo(KeywordTokens, MaxDescTokens)}

InitKeywords ==
    /\ pc = "analyze_call"
    /\ resume_skills = <<>>
    /\ llm \in BOOLEAN
    /\ job_description \in KeywordDescriptions
    /\ job_title = T_ML_Intern
    /\ extract_reply = NotCalled
    /\ gap_reply = NotCalled
    /\ job_skills_dict = NoSkillsDict
    /\ analysis = NoAnalysis
    /\ IdleOverlap
    /\ IdleAsm
    /\ IdleEnrich
    /\ IdleRest

SpecKeywords == InitKeywords /\ [][NextGap]_vars

\* extract_job_skills returned from the keyword fallback, entered with empty
\* lists: no model is set, or its call raised or returned text that is not
\* JSON
OnKeywordFallback ==
    /\ pc \in {"analyze_gap_details", "analyze_done"}
    /\ ~llm \/ extract_reply.kind \in {"raise", "nonjson"}

\* the keyword occurs in the job description, letter case aside
OccursInDescription(keyword) == StrIn(lower(keyword), lower(job_description))

\* C30: on the keyword fallback path the required list holds every keyword
\* of the fallback list that occurs in the job description, compared without
\* regard to letter case, in the order of the list, and the preferred list
\* is empty.
C30_EveryKeywordFound ==
    OnKeywordFallback =>
        /\ job_skills_dict.required = SelectSeq(keywords, OccursInDescription)
        /\ job_skills_dict.preferred = <<>>

====
